---- MODULE Spec2Model ----
(***************************************************************************)
(* Finite-element toolkit PythonEF: the element group (GroupElem), its     *)
(* per-key operator caches, the assembly index arrays (GroupElem, Mesh)    *)
(* and the construction of a mesh from the mesher's element types          *)
(* (Interface_Gmsh).                                                       *)
(*                                                                         *)
(* Specifications:                                                         *)
(*   Spec      one GroupElem and the sequence of getter calls a caller     *)
(*             makes on it (the per-key caches of classes/GroupElem.py)    *)
(*   SpecConn  connectivity queries: get_assembly, the Mesh scatter index  *)
(*             arrays, get_elements, connect_n_e                           *)
(*   SpecB     the strain-displacement operator built from dN_e_pg         *)
(*   SpecMesh  the loops that build the element groups of a mesh           *)
(*   SpecN     the shape functions and get_N_pg with repetition            *)
(*   SpecF     the geometric mapping of one element: frame, F, jacobian,   *)
(*             inverse, dN_e_pg and B in exact arithmetic                  *)
(*   SpecPoint one Point of modules/Geom.py and its operations             *)
(*   SpecGetters  Spec without the caller's writes, for the dependencies   *)
(*             between the caches                                          *)
(*   SpecRenum the renumbering of the mesher's node tags                   *)
(*   SpecContour  the construction of a Contour from its parts             *)
(*   SpecGeom  copies and transformations of geometric objects             *)
(*   SpecTic   the timing history of modules/TicTac.py                     *)
(*   SpecUnity Tic.Get_time_unity around the boundaries of its units       *)
(*   SpecInfos Get_ElemInFos on any mesher type id                         *)
(*   SpecSel   the node selections of a group                              *)
(***************************************************************************)
EXTENDS Integers, Sequences, FiniteSets

VARIABLES
    grp,      \* Spec: the GroupElem under study: [gmshId, s, off]
    cache,    \* Spec: the nine __dict_* caches: quantity -> key -> entry
    ever,     \* Spec: history: key -> quantities computed so far
    ret,      \* Spec: the last getter call and what it returned
    held,     \* Spec: the dict arrays the caller holds a reference to
    conn,     \* SpecConn: [gmshId, connect] of a group
    res,      \* SpecConn: the last query and its result
    bIn,      \* SpecB: [dim, nPe, dN] one (e, pg) slice of dN_e_pg
    bOut,     \* SpecB: the operator built from it
    mIn,      \* SpecMesh: [meshDim, types] what the mesher holds
    mSt,      \* SpecMesh: the state of the construction loop
    nIn,      \* SpecN: [gmshId, coord] a group's type and its gauss.coord
    nOut,     \* SpecN: the last shape-function call and what it returned
    fIn,      \* SpecF: [gmshId, coordo, others] one element and its mesh
    fOut,     \* SpecF: the last call on it and what it returned
    pts,      \* SpecPoint: the Point objects of the program
    gIn,      \* SpecRenum: the node tags and element node tags of the mesher
    gOut,     \* SpecRenum: what _Construct_Mesh made of them
    sIn,      \* SpecSel: a group, its nodes and coordinates; SpecInfos: an id
    sOut,     \* SpecSel, SpecInfos: the last call and its result
    tic,      \* SpecTic, SpecMesh, SpecRenum: the clock, the Tic instances, the history
    geo       \* SpecContour, SpecGeom: the geometric objects and their Points

vars == <<grp, cache, ever, ret, held, conn, res, bIn, bOut, mIn, mSt,
          nIn, nOut, fIn, fOut, pts, gIn, gOut, sIn, sOut, tic, geo>>

(***************************************************************************)
(* Bounds of the model.                                                    *)
(***************************************************************************)
\* Node coordinates of the groups of Spec range over -1 .. MaxCoord.
MaxCoord == 1

(***************************************************************************)
(* GroupElem.Get_ElemInFos: mesher type id -> (type, nPe, dim).            *)
(***************************************************************************)
KnownGmshIds == (1 .. 16) \cup {18, 19}

Get_ElemInFos(gmshId) ==
    CASE gmshId = 1  -> [type |-> "SEG2",    nPe |-> 2,  dim |-> 1]
      [] gmshId = 2  -> [type |-> "TRI3",    nPe |-> 3,  dim |-> 2]
      [] gmshId = 3  -> [type |-> "QUAD4",   nPe |-> 4,  dim |-> 2]
      [] gmshId = 4  -> [type |-> "TETRA4",  nPe |-> 4,  dim |-> 3]
      [] gmshId = 5  -> [type |-> "HEXA8",   nPe |-> 8,  dim |-> 3]
      [] gmshId = 6  -> [type |-> "PRISM6",  nPe |-> 6,  dim |-> 3]
      [] gmshId = 7  -> [type |-> "PYRA5",   nPe |-> 5,  dim |-> 3]
      [] gmshId = 8  -> [type |-> "SEG3",    nPe |-> 3,  dim |-> 1]
      [] gmshId = 9  -> [type |-> "TRI6",    nPe |-> 6,  dim |-> 2]
      [] gmshId = 10 -> [type |-> "QUAD9",   nPe |-> 9,  dim |-> 2]
      [] gmshId = 11 -> [type |-> "TETRA10", nPe |-> 10, dim |-> 3]
      [] gmshId = 12 -> [type |-> "CUBE27",  nPe |-> 27, dim |-> 3]
      [] gmshId = 13 -> [type |-> "PRISM18", nPe |-> 18, dim |-> 3]
      [] gmshId = 14 -> [type |-> "PYRA14",  nPe |-> 17, dim |-> 3]
      [] gmshId = 15 -> [type |-> "POINT",   nPe |-> 1,  dim |-> 0]
      [] gmshId = 16 -> [type |-> "QUAD8",   nPe |-> 8,  dim |-> 2]
      [] gmshId = 18 -> [type |-> "PRISM15", nPe |-> 15, dim |-> 3]
      [] gmshId = 19 -> [type |-> "PYRA13",  nPe |-> 13, dim |-> 3]

elemType(g) == Get_ElemInFos(g.gmshId).type
nPe(g) == Get_ElemInFos(g.gmshId).nPe
dim(g) == Get_ElemInFos(g.gmshId).dim

\* GroupElem.get_MatriceType
get_MatriceType == {"rigi", "masse"}

(***************************************************************************)
(* The if/elif chains of __get_N_pg and get_dN_pg: the topologies with     *)
(* shape functions; every other topology reaches `raise "Element           *)
(* inconnue"`, which Python 3 turns into a TypeError.                      *)
(***************************************************************************)
ShapeTypes_Defaulting(type) ==
    type \in {"SEG2", "SEG3", "TRI3", "TRI6", "QUAD4", "QUAD8", "QUAD9",
              "TETRA4", "HEXA8", "PRISM6"}

ShapeTypes(type) ==
    type \in {"SEG2", "SEG3", "TRI3", "TRI6", "QUAD4", "QUAD8",
              "TETRA4", "HEXA8", "PRISM6"}

\* The branches of __get_sysCoord_sysCoordLocal that bind points1, points2.
SysCoordTypes == {"SEG2", "SEG3", "TRI3", "TRI6", "QUAD4", "QUAD8"}

(***************************************************************************)
(* Spec: one GroupElem with a single element.  Its nodes are laid out from *)
(* the group's parameters s and off:                                       *)
(*   SEG2    (0,0,0) (s,0,0)                                               *)
(*   TRI3    (0,0,0) (1,0,0) (0,s,0)                                       *)
(*   TETRA4  (0,0,0) (1,0,0) (0,1,0) (0,0,s)                               *)
(*   others  node n at (n,0,0), the last node moved by off along the axis  *)
(*           that follows the element's own axes                           *)
(* so that s is the sign-carrying edge of the element: s > 0 is a well     *)
(* oriented element, s = 0 a degenerate one and s < 0 an inverted one.     *)
(***************************************************************************)
ZeroPoint == <<0, 0, 0>>

coordoGlob(g) ==
    CASE elemType(g) = "SEG2" -> << ZeroPoint, <<g.s, 0, 0>> >>
      [] elemType(g) = "TRI3" -> << ZeroPoint, <<1, 0, 0>>, <<0, g.s, 0>> >>
      [] elemType(g) = "TETRA4" ->
            << ZeroPoint, <<1, 0, 0>>, <<0, 1, 0>>, <<0, 0, g.s>> >>
      [] OTHER ->
            [n \in 1 .. nPe(g) |->
                [c \in 1 .. 3 |->
                    IF c = 1 THEN n - 1
                    ELSE IF n = nPe(g) /\ c = dim(g) + 1 THEN g.off ELSE 0]]

\* connect of the single element: its nodes in order (0-based ids 0..nPe-1;
\* row n of coordoGlob is node n-1).
nodes_e(g) == [n \in 1 .. nPe(g) |-> coordoGlob(g)[n]]

\* nodes_n[:, self.dim].max(), line 456 (only read when dim is 1 or 2).
SetMax(S) == CHOOSE x \in S : \A y \in S : y <= x

OutOfPlaneMax(g) ==
    SetMax({coordoGlob(g)[n][dim(g) + 1] : n \in 1 .. nPe(g)})

(***************************************************************************)
(* get_dN_pg for the topologies whose derivatives are constants (they do   *)
(* not depend on the quadrature points): twice the table of the source,    *)
(* so that SEG2's +-0.5 stays an integer.  TwodN[d][n].                    *)
(***************************************************************************)
TwodN_pg(type) ==
    CASE type = "SEG2"   -> << <<-1, 1>> >>
      [] type = "TRI3"   -> << <<-2, 2, 0>>, <<-2, 0, 2>> >>
      [] type = "TETRA4" -> << <<-2, 2, 0, 0>>, <<-2, 0, 2, 0>>, <<-2, 0, 0, 2>> >>

RECURSIVE SumTo(_, _)
SumTo(f, n) == IF n = 0 THEN 0 ELSE f[n] + SumTo(f, n - 1)

\* einsum('pik,ekj->epij', dN_pg, nodes_e) at one (e, pg): twice F.
TwoF(g) ==
    [i \in 1 .. dim(g) |->
        [j \in 1 .. dim(g) |->
            SumTo([k \in 1 .. nPe(g) |->
                      TwodN_pg(elemType(g))[i][k] * nodes_e(g)[k][j]],
                  nPe(g))]]

\* np.linalg.det of a 1x1, 2x2 or 3x3 matrix.
Det(A) ==
    CASE Len(A) = 1 -> A[1][1]
      [] Len(A) = 2 -> A[1][1] * A[2][2] - A[1][2] * A[2][1]
      [] Len(A) = 3 ->
              A[1][1] * (A[2][2] * A[3][3] - A[2][3] * A[3][2])
            - A[1][2] * (A[2][1] * A[3][3] - A[2][3] * A[3][1])
            + A[1][3] * (A[2][1] * A[3][2] - A[2][2] * A[3][1])

\* The sign of jacobien_e_pg = det(F_e_pg): det(2F) = 2^dim det(F).
Sign(x) == IF x > 0 THEN 1 ELSE IF x < 0 THEN -1 ELSE 0
jacobienSign(g) == Sign(Det(TwoF(g)))

(***************************************************************************)
(* The caches.  Every array is represented by a mark: Pristine, the value  *)
(* the computation yields from the group's geometry and the key, or        *)
(* Altered, anything else (an array a caller has written into, or a value  *)
(* computed from such an array).  NoEntry: the key is not in the dict.     *)
(***************************************************************************)
Pristine == "pristine"
Altered == "altered"
NoEntry == "no entry"

CachedOps == {"F_e_pg", "jacobien_e_pg", "invF_e_pg", "dN_e_pg", "B_dep_e_pg",
              "leftDepPart", "ReactionPart_e_pg", "DiffusePart_e_pg",
              "SourcePart_e_pg"}
Quantities == CachedOps \cup {"N_pg", "dN_pg"}

Join(a, b) == IF a = Altered \/ b = Altered THEN Altered ELSE Pristine

\* What a call returns: an array (a copy, or with alias the cache's own
\* array), None, or an exception.
Arr(d) == [kind |-> "array", data |-> d, err |-> "", alias |-> FALSE]
Own(d) == [kind |-> "array", data |-> d, err |-> "", alias |-> TRUE]
NoneVal == [kind |-> "None", data |-> NoEntry, err |-> "", alias |-> FALSE]
Raise(e) == [kind |-> "error", data |-> NoEntry, err |-> e, alias |-> FALSE]

\* A call in progress: m = [cache, ever, recomp, out].
Return(m, o) == [m EXCEPT !.out = o]
Failed(m) == m.out.kind = "error"
Computed(m, q, k) ==
    [m EXCEPT !.ever[k] = @ \cup {q},
              !.recomp = @ \cup (IF q \in m.ever[k] THEN {q} ELSE {})]
Store(m, q, k, d) == [m EXCEPT !.cache[q][k] = d]
InDict(m, q, k) == m.cache[q][k] # NoEntry
\* cast(np.ndarray, self.__dict_X[matriceType]).copy()
CopyOf(m, q, k) == Return(m, Arr(m.cache[q][k]))

(***************************************************************************)
(* The getters of GroupElem, for the group grp.  Each takes the call in    *)
(* progress and the key matriceType and yields the call after it.          *)
(***************************************************************************)
\* get_dN_pg, lines 651-773 (not cached: evaluated at every call)
get_dN_pg(m, k) ==
    IF dim(grp) = 0 THEN Return(m, NoneVal)
    ELSE IF ~ShapeTypes(elemType(grp)) THEN Return(m, Raise("TypeError"))
    ELSE Return(Computed(m, "dN_pg", k), Arr(Pristine))

\* __get_N_pg, lines 522-649 (not cached: evaluated at every call)
priv_get_N_pg(m, k) ==
    IF dim(grp) = 0 THEN Return(m, NoneVal)
    ELSE IF ~ShapeTypes(elemType(grp)) THEN Return(m, Raise("TypeError"))
    ELSE Return(Computed(m, "N_pg", k), Arr(Pristine))

\* get_N_pg(matriceType, repetition=1), lines 187-220
get_N_pg(m, k) ==
    IF dim(grp) = 0 THEN Return(m, NoneVal)
    ELSE priv_get_N_pg(m, k)

\* sysCoordLocal_e, lines 384-444: in dimension 0 or 3 the frame is
\* np.eye(3) per element (lines 406-409) and the points are not read; in
\* dimension 1 or 2 a topology outside the three branches leaves points1
\* unbound at line 413.
sysCoordLocal_e(m) ==
    IF dim(grp) \in {0, 3} THEN Return(m, Arr(Pristine))
    ELSE IF elemType(grp) \in SysCoordTypes THEN Return(m, Arr(Pristine))
    ELSE Return(m, Raise("UnboundLocalError"))

\* The value of a one-element set: {e(x) : x \in {v}} binds x to the value
\* of v, a call's state after its first step, for the steps that follow.
Only(S) == CHOOSE x \in S : TRUE

\* get_F_e_pg, lines 446-468: the body run on a key that is not in the dict
compute_F_e_pg(m, k) ==
    Only({ IF Failed(s1) THEN s1
           ELSE Only({ IF Failed(s2) THEN s2
                       ELSE CopyOf(Store(Computed(s2, "F_e_pg", k),
                                         "F_e_pg", k, Pristine),
                                   "F_e_pg", k)
                       : s2 \in {get_dN_pg(s1, k)} })
           : s1 \in {IF dim(grp) \in {1, 2} /\ OutOfPlaneMax(grp) # 0
                     THEN sysCoordLocal_e(m) ELSE m} })

get_F_e_pg(m, k) ==
    IF dim(grp) = 0 THEN Return(m, NoneVal)
    ELSE IF InDict(m, "F_e_pg", k) THEN CopyOf(m, "F_e_pg", k)
    ELSE compute_F_e_pg(m, k)

\* get_jacobien_e_pg storing a determinant without asking get_F_e_pg.
get_jacobien_e_pg_Detached(m, k) ==
    IF dim(grp) = 0 THEN Return(m, NoneVal)
    ELSE IF InDict(m, "jacobien_e_pg", k) THEN CopyOf(m, "jacobien_e_pg", k)
    ELSE CopyOf(Store(Computed(m, "jacobien_e_pg", k),
                      "jacobien_e_pg", k, Pristine),
                "jacobien_e_pg", k)

\* get_jacobien_e_pg, lines 470-482: np.linalg.det(F_e_pg), whatever its sign
get_jacobien_e_pg(m, k) ==
    IF dim(grp) = 0 THEN Return(m, NoneVal)
    ELSE IF InDict(m, "jacobien_e_pg", k) THEN CopyOf(m, "jacobien_e_pg", k)
    ELSE Only({ IF Failed(s1) THEN s1
                ELSE CopyOf(Store(Computed(s1, "jacobien_e_pg", k),
                                  "jacobien_e_pg", k, s1.out.data),
                            "jacobien_e_pg", k)
                : s1 \in {get_F_e_pg(m, k)} })

\* get_invF_e_pg, lines 484-520.  dim 1: 1/F and dim 2: adjugate/det, where a
\* zero determinant gives inf and nan under a warning; dim 3: np.linalg.inv,
\* which raises LinAlgError on a singular matrix.
get_invF_e_pg(m, k) ==
    IF dim(grp) = 0 THEN Return(m, NoneVal)
    ELSE IF InDict(m, "invF_e_pg", k) THEN CopyOf(m, "invF_e_pg", k)
    ELSE Only({ IF Failed(s1) THEN s1
                ELSE Only({ IF Failed(s2) THEN s2
                            ELSE IF dim(grp) = 3 /\ jacobienSign(grp) = 0
                                 THEN Return(s2, Raise("LinAlgError"))
                            ELSE CopyOf(Store(Computed(s2, "invF_e_pg", k),
                                              "invF_e_pg", k,
                                              Join(s1.out.data, s2.out.data)),
                                        "invF_e_pg", k)
                            : s2 \in {IF dim(grp) = 2
                                      THEN get_jacobien_e_pg(s1, k) ELSE s1} })
                : s1 \in {get_F_e_pg(m, k)} })

\* get_dN_e_pg, lines 222-239.  A group of dimension 0 has no dicts
\* (__init__, lines 35-44): reading self.__dict_dN_e_pg raises.
get_dN_e_pg(m, k) ==
    IF dim(grp) = 0 THEN Return(m, Raise("AttributeError"))
    ELSE IF InDict(m, "dN_e_pg", k) THEN CopyOf(m, "dN_e_pg", k)
    ELSE Only({ IF Failed(s1) THEN s1
                ELSE Only({ IF Failed(s2) THEN s2
                            ELSE CopyOf(Store(Computed(s2, "dN_e_pg", k),
                                              "dN_e_pg", k,
                                              Join(s1.out.data, s2.out.data)),
                                        "dN_e_pg", k)
                            : s2 \in {get_dN_pg(s1, k)} })
                : s1 \in {get_invF_e_pg(m, k)} })

\* get_B_dep_e_pg, lines 241-296.  Every dimension but 2 takes the 3D branch,
\* which reads dN_e_pg[:,:,1] and dN_e_pg[:,:,2]: an IndexError in dimension 1.
get_B_dep_e_pg(m, k) ==
    IF dim(grp) = 0 THEN Return(m, Raise("AttributeError"))
    ELSE IF InDict(m, "B_dep_e_pg", k) THEN CopyOf(m, "B_dep_e_pg", k)
    ELSE Only({ IF Failed(s1) THEN s1
                ELSE IF dim(grp) = 1 THEN Return(s1, Raise("IndexError"))
                ELSE CopyOf(Store(Computed(s1, "B_dep_e_pg", k),
                                  "B_dep_e_pg", k, s1.out.data),
                            "B_dep_e_pg", k)
                : s1 \in {get_dN_e_pg(m, k)} })

\* get_leftDepPart, lines 298-317: returns the dict's own array, not a copy
get_leftDepPart(m, k) ==
    IF dim(grp) = 0 THEN Return(m, Raise("AttributeError"))
    ELSE IF InDict(m, "leftDepPart", k)
         THEN Return(m, Own(m.cache["leftDepPart"][k]))
    ELSE Only({ IF Failed(s1) THEN s1
                ELSE Only({ IF Failed(s2) THEN s2
                            ELSE Return(Store(Computed(s2, "leftDepPart", k),
                                              "leftDepPart", k,
                                              Join(s1.out.data, s2.out.data)),
                                        Own(Join(s1.out.data, s2.out.data)))
                            : s2 \in {get_B_dep_e_pg(s1, k)} })
                : s1 \in {get_jacobien_e_pg(m, k)} })

\* The three phase-field parts share one shape: jacobien_e_pg, then a second
\* operand, then the product stored under the key and a copy returned.
\* get_phaseField_ReactionPart_e_pg, lines 321-340
get_phaseField_ReactionPart_e_pg(m, k) ==
    IF dim(grp) = 0 THEN Return(m, Raise("AttributeError"))
    ELSE IF InDict(m, "ReactionPart_e_pg", k) THEN CopyOf(m, "ReactionPart_e_pg", k)
    ELSE Only({ IF Failed(s1) THEN s1
                ELSE Only({ IF Failed(s2) THEN s2
                            ELSE CopyOf(Store(Computed(s2, "ReactionPart_e_pg", k),
                                              "ReactionPart_e_pg", k,
                                              Join(s1.out.data, s2.out.data)),
                                        "ReactionPart_e_pg", k)
                            : s2 \in {get_N_pg(s1, k)} })
                : s1 \in {get_jacobien_e_pg(m, k)} })

\* get_phaseField_DiffusePart_e_pg, lines 342-361
get_phaseField_DiffusePart_e_pg(m, k) ==
    IF dim(grp) = 0 THEN Return(m, Raise("AttributeError"))
    ELSE IF InDict(m, "DiffusePart_e_pg", k) THEN CopyOf(m, "DiffusePart_e_pg", k)
    ELSE Only({ IF Failed(s1) THEN s1
                ELSE Only({ IF Failed(s2) THEN s2
                            ELSE CopyOf(Store(Computed(s2, "DiffusePart_e_pg", k),
                                              "DiffusePart_e_pg", k,
                                              Join(s1.out.data, s2.out.data)),
                                        "DiffusePart_e_pg", k)
                            : s2 \in {get_dN_e_pg(s1, k)} })
                : s1 \in {get_jacobien_e_pg(m, k)} })

\* get_phaseField_SourcePart_e_pg, lines 363-382
get_phaseField_SourcePart_e_pg(m, k) ==
    IF dim(grp) = 0 THEN Return(m, Raise("AttributeError"))
    ELSE IF InDict(m, "SourcePart_e_pg", k) THEN CopyOf(m, "SourcePart_e_pg", k)
    ELSE Only({ IF Failed(s1) THEN s1
                ELSE Only({ IF Failed(s2) THEN s2
                            ELSE CopyOf(Store(Computed(s2, "SourcePart_e_pg", k),
                                              "SourcePart_e_pg", k,
                                              Join(s1.out.data, s2.out.data)),
                                        "SourcePart_e_pg", k)
                            : s2 \in {get_N_pg(s1, k)} })
                : s1 \in {get_jacobien_e_pg(m, k)} })

(***************************************************************************)
(* Spec: the groups, the initial state and one action per getter.          *)
(***************************************************************************)
\* The supported topologies of Spec are those whose derivative tables are
\* constants; elements of dimension 1 and 2 lie in their own axes (off = 0).
LinearIds == {1, 2, 4}
PointId == 15
\* The topologies Get_ElemInFos knows and the getters have no branch for.
ImplementedNames == {"SEG2", "SEG3", "TRI3", "TRI6", "QUAD4", "QUAD8",
                     "TETRA4", "HEXA8", "PRISM6", "POINT"}
UnsupportedIds ==
    {g \in KnownGmshIds : Get_ElemInFos(g).type \notin ImplementedNames}

Groups ==
    {[gmshId |-> g, s |-> s, off |-> 0] : g \in LinearIds, s \in -1 .. MaxCoord}
    \cup {[gmshId |-> PointId, s |-> 0, off |-> 0]}
    \cup {[gmshId |-> g, s |-> 0, off |-> o] : g \in UnsupportedIds, o \in {0, 1}}

ConnIdle == conn = <<>> /\ res = <<>>
BIdle == bIn = <<>> /\ bOut = <<>>
MeshIdle == mIn = <<>> /\ mSt = <<>>
ShapeIdle == nIn = <<>> /\ nOut = <<>>
MapIdle == fIn = <<>> /\ fOut = <<>>
PointIdle == pts = <<>>
RenumIdle == gIn = <<>> /\ gOut = <<>>
SelIdle == sIn = <<>> /\ sOut = <<>>
TicIdle == tic = <<>>
GeomIdle == geo = <<>>
GroupIdle ==
    grp = <<>> /\ cache = <<>> /\ ever = <<>> /\ ret = <<>> /\ held = <<>>

Init ==
    /\ grp \in Groups
    /\ cache = [q \in CachedOps |-> [k \in get_MatriceType |-> NoEntry]]
    /\ ever = [k \in get_MatriceType |-> {}]
    /\ ret = [q |-> "", key |-> "", kind |-> "init", data |-> NoEntry,
              err |-> "", alias |-> FALSE, recomp |-> {}]
    /\ held = {}
    /\ ConnIdle /\ BIdle /\ MeshIdle
    /\ ShapeIdle /\ MapIdle /\ PointIdle
    /\ RenumIdle /\ SelIdle /\ TicIdle /\ GeomIdle

\* A call starts from the group's dicts; NoneVal stands for no value yet.
Begin == [cache |-> cache, ever |-> ever, recomp |-> {}, out |-> NoneVal]

Finish(q, k, r) ==
    /\ cache' = r.cache
    /\ ever' = r.ever
    /\ ret' = [q |-> q, key |-> k, kind |-> r.out.kind, data |-> r.out.data,
               err |-> r.out.err, alias |-> r.out.alias, recomp |-> r.recomp]
    /\ held' = IF r.out.alias THEN held \cup {<<q, k>>} ELSE held
    /\ UNCHANGED <<grp, conn, res, bIn, bOut, mIn, mSt,
                 nIn, nOut, fIn, fOut, pts,
                 gIn, gOut, sIn, sOut, tic, geo>>

Call_get_N_pg ==
    \E k \in get_MatriceType : Finish("N_pg", k, get_N_pg(Begin, k))
Call_get_dN_pg ==
    \E k \in get_MatriceType : Finish("dN_pg", k, get_dN_pg(Begin, k))
Call_get_F_e_pg ==
    \E k \in get_MatriceType : Finish("F_e_pg", k, get_F_e_pg(Begin, k))
Call_get_jacobien_e_pg ==
    \E k \in get_MatriceType :
        Finish("jacobien_e_pg", k, get_jacobien_e_pg(Begin, k))
Call_get_invF_e_pg ==
    \E k \in get_MatriceType : Finish("invF_e_pg", k, get_invF_e_pg(Begin, k))
Call_get_dN_e_pg ==
    \E k \in get_MatriceType : Finish("dN_e_pg", k, get_dN_e_pg(Begin, k))
Call_get_B_dep_e_pg ==
    \E k \in get_MatriceType : Finish("B_dep_e_pg", k, get_B_dep_e_pg(Begin, k))
Call_get_leftDepPart ==
    \E k \in get_MatriceType : Finish("leftDepPart", k, get_leftDepPart(Begin, k))
Call_get_ReactionPart ==
    \E k \in get_MatriceType :
        Finish("ReactionPart_e_pg", k, get_phaseField_ReactionPart_e_pg(Begin, k))
Call_get_DiffusePart ==
    \E k \in get_MatriceType :
        Finish("DiffusePart_e_pg", k, get_phaseField_DiffusePart_e_pg(Begin, k))
Call_get_SourcePart ==
    \E k \in get_MatriceType :
        Finish("SourcePart_e_pg", k, get_phaseField_SourcePart_e_pg(Begin, k))

\* The caller writes in place into an array a getter returned earlier and
\* that is the dict's own array: the dict entry changes with it.
WriteHeld ==
    /\ \E h \in held : cache' = [cache EXCEPT ![h[1]][h[2]] = Altered]
    /\ UNCHANGED <<grp, ever, ret, held, conn, res, bIn, bOut, mIn, mSt,
                 nIn, nOut, fIn, fOut, pts,
                 gIn, gOut, sIn, sOut, tic, geo>>

\* The caller writes in place into the copy the last call returned: nothing
\* of the group changes.
WriteCopy ==
    /\ ret.kind = "array" /\ ~ret.alias
    /\ UNCHANGED vars

Next ==
    \/ Call_get_N_pg
    \/ Call_get_dN_pg
    \/ Call_get_F_e_pg
    \/ Call_get_jacobien_e_pg
    \/ Call_get_invF_e_pg
    \/ Call_get_dN_e_pg
    \/ Call_get_B_dep_e_pg
    \/ Call_get_leftDepPart
    \/ Call_get_ReactionPart
    \/ Call_get_DiffusePart
    \/ Call_get_SourcePart
    \/ WriteHeld
    \/ WriteCopy

Spec == Init /\ [][Next]_vars

(***************************************************************************)
(* Claims on Spec.                                                         *)
(***************************************************************************)
GeometricOps == {"N_pg", "dN_pg", "F_e_pg", "jacobien_e_pg", "invF_e_pg",
                 "dN_e_pg"}

\* A group of Spec whose element is well oriented: det(F_e_pg) > 0.
WellOriented == grp.gmshId \in LinearIds /\ jacobienSign(grp) > 0

\* C3 as stated, on a well-oriented element: none of N_pg, dN_pg, F_e_pg,
\* jacobien_e_pg, invF_e_pg and dN_e_pg is ever computed a second time for
\* the same key.
C3_NoGeometricRecomputation ==
    WellOriented => ret.recomp \cap GeometricOps = {}

\* C4 as stated, on a well-oriented element: whatever the caller wrote into
\* arrays returned earlier, every cached getter returns for (quantity, key)
\* the value first computed.
C4_SameValueForSameKey ==
    (WellOriented /\ ret.kind = "array" /\ ret.q \in CachedOps)
    => ret.data = Pristine

\* C5 as stated: with a non-positive det(F_e_pg), get_jacobien_e_pg and every
\* operator that depends on it fail and store nothing.
JacobienOps == CachedOps \ {"F_e_pg"}

C5_NonPositiveJacobianFails ==
    (grp.gmshId \in LinearIds /\ jacobienSign(grp) <= 0
        /\ ret.q \in JacobienOps)
    => /\ ret.kind = "error"
       /\ \A q \in JacobienOps : cache[q][ret.key] = NoEntry

\* C6 as stated: on a group of dimension 0 every request for shape-function
\* values or derivatives returns None and raises nothing.
C6_PointReturnsNone ==
    (dim(grp) = 0 /\ ret.q \in GeometricOps) => ret.kind = "None"

\* C7: on a group whose topology has no shape functions every getter fails
\* with an error, and no dict ever receives an entry.
C7_UnsupportedFails ==
    (grp.gmshId \in UnsupportedIds /\ ret.kind # "init")
    => /\ ret.kind = "error"
       /\ \A q \in CachedOps, k \in get_MatriceType : cache[q][k] = NoEntry

\* C7 witness: get_leftDepPart has failed on an unsupported 2D topology that
\* lies in its plane (the failure comes from get_dN_pg's last branch).
C7_Witness ==
    /\ grp.gmshId \in UnsupportedIds /\ dim(grp) = 2 /\ grp.off = 0
    /\ ret.q = "leftDepPart" /\ ret.kind = "error" /\ ret.err = "TypeError"

\* The quantities a stored quantity was computed from.
DependsOn(q) ==
    CASE q = "F_e_pg"            -> {}
      [] q = "jacobien_e_pg"     -> {"F_e_pg"}
      [] q = "invF_e_pg"         -> {"F_e_pg"}
      [] q = "dN_e_pg"           -> {"invF_e_pg"}
      [] q = "B_dep_e_pg"        -> {"dN_e_pg"}
      [] q = "leftDepPart"       -> {"B_dep_e_pg", "jacobien_e_pg"}
      [] q = "DiffusePart_e_pg"  -> {"dN_e_pg", "jacobien_e_pg"}
      [] q = "ReactionPart_e_pg" -> {"jacobien_e_pg"}
      [] q = "SourcePart_e_pg"   -> {"jacobien_e_pg"}

Cached(q, k) == cache[q][k] # NoEntry

DependenciesCached ==
    \A k \in get_MatriceType, q \in CachedOps :
        Cached(q, k) => \A d \in DependsOn(q) : Cached(d, k)

\* SpecGetters: a group under getter calls alone, the caller writing into no
\* array.
NextGetters ==
    \/ Call_get_N_pg
    \/ Call_get_dN_pg
    \/ Call_get_F_e_pg
    \/ Call_get_jacobien_e_pg
    \/ Call_get_invF_e_pg
    \/ Call_get_dN_e_pg
    \/ Call_get_B_dep_e_pg
    \/ Call_get_leftDepPart
    \/ Call_get_ReactionPart
    \/ Call_get_DiffusePart
    \/ Call_get_SourcePart

\* The getters read the scale s of the element through the determinant of
\* F_e_pg alone: one group per sign of it.
Orientations == {-1, 0, 1}

InitGetters == Init /\ grp.s \in Orientations

SpecGetters == InitGetters /\ [][NextGetters]_vars

\* The step is a getter call for the key ret'.key.
OtherKeysUntouched ==
    \A k \in get_MatriceType \ {ret'.key} :
        /\ ever'[k] = ever[k]
        /\ \A q \in CachedOps : cache'[q][k] = cache[q][k]

\* C29: after any sequence of getter calls the dicts are closed under their
\* computation dependencies, key by key (dN_e_pg needs invF; invF and
\* jacobien need F; B_dep needs dN_e_pg; leftDepPart needs B_dep and
\* jacobien; DiffusePart needs dN_e_pg and jacobien; ReactionPart and
\* SourcePart need jacobien), and a getter call for a key never adds or
\* changes an entry under another key.
C29_CachesClosed == []DependenciesCached /\ [][OtherKeysUntouched]_vars

\* C29 witness: get_leftDepPart has filled six dicts under its key, the
\* phase-field dicts of that key and every dict of the other key are empty.
C29_Witness ==
    /\ ret.q = "leftDepPart" /\ ret.kind = "array"
    /\ \A q \in {"F_e_pg", "jacobien_e_pg", "invF_e_pg", "dN_e_pg",
                  "B_dep_e_pg", "leftDepPart"} : Cached(q, ret.key)
    /\ ~Cached("DiffusePart_e_pg", ret.key)
    /\ \A k \in get_MatriceType \ {ret.key}, q \in CachedOps : ~Cached(q, k)

(***************************************************************************)
(* SpecConn: the connectivity of a group, the index arrays built from it   *)
(* and the incidence query.  Arrays are functions indexed from 0, as in    *)
(* the source: connect[e][n] is node n of element e.                       *)
(***************************************************************************)
\* A group has 1 .. MaxNe elements.
MaxNe == 2
\* The first node of an element ranges over 0 .. MaxNode.
MaxNode == 1
\* get_assembly is called with dim = 1 .. MaxDimArg.
MaxDimArg == 3

Rows(A) == Cardinality(DOMAIN A)
Cols(A) == IF DOMAIN A = {} THEN 0 ELSE Cardinality(DOMAIN A[0])

\* np.arange(start, stop, step), step > 0
np_arange(start, stop, step) ==
    [i \in 0 .. ((stop - start + step - 1) \div step) - 1 |-> start + i * step]

\* np.zeros((R, C), dtype=np.int64)
np_zeros(R, C) == [e \in 0 .. R - 1 |-> [c \in 0 .. C - 1 |-> 0]]

\* A.reshape(-1): the entries of a matrix row after row
ravel(A) ==
    [p \in 0 .. Rows(A) * Cols(A) - 1 |-> A[p \div Cols(A)][p % Cols(A)]]

\* a.reshape((R, -1)) of a flat array
reshape(a, R) ==
    [e \in 0 .. R - 1 |->
        [c \in 0 .. (Cardinality(DOMAIN a) \div R) - 1 |->
            a[e * (Cardinality(DOMAIN a) \div R) + c]]]

\* np.repeat(a, r) of a flat array: each entry r times in a row.  Given a
\* matrix, numpy flattens it first: np.repeat(A, r) is np_repeat(ravel(A), r).
np_repeat(a, r) ==
    [p \in 0 .. Cardinality(DOMAIN a) * r - 1 |-> a[p \div r]]

\* np.repeat(A, r, axis=0) without the axis: the flattened repetition, cut
\* into rows of the same length.
np_repeat_axis0_Flattening(A, r) ==
    reshape(np_repeat(ravel(A), r), Rows(A) * r)

\* np.repeat(A, r, axis=0): each row r times in a row
np_repeat_axis0(A, r) ==
    [i \in 0 .. Rows(A) * r - 1 |-> A[i \div r]]

\* A[:, cols] = V, where V has one column per entry of cols
SetColumns(A, cols, V) ==
    [e \in DOMAIN A |->
        [c \in DOMAIN A[e] |->
            IF \E j \in DOMAIN cols : cols[j] = c
            THEN V[e][CHOOSE j \in DOMAIN cols : cols[j] = c]
            ELSE A[e][c]]]

\* np.array(connect) * dim + d
ScaleShift(connect, d0, d) ==
    [e \in DOMAIN connect |-> [n \in DOMAIN connect[e] |-> connect[e][n] * d0 + d]]

\* GroupElem.get_assembly with the components of a node spread over blocks:
\* component d of node n at column d*nPe + n.
get_assembly_ByComponent(connect, d0) ==
    [e \in DOMAIN connect |->
        [c \in 0 .. Cols(connect) * d0 - 1 |->
            connect[e][c % Cols(connect)] * d0 + (c \div Cols(connect))]]

\* GroupElem.get_assembly, lines 120-134: the loop `for d in range(dim)`
RECURSIVE assemblyLoop(_, _, _, _)
assemblyLoop(assembly, connect, d0, d) ==
    IF d >= d0 THEN assembly
    ELSE assemblyLoop(
            SetColumns(assembly, np_arange(d, Cols(connect) * d0, d0),
                       ScaleShift(connect, d0, d)),
            connect, d0, d + 1)

get_assembly(connect, d0) ==
    assemblyLoop(np_zeros(Rows(connect), Cols(connect) * d0), connect, d0, 0)

\* Mesh.__get_assembly, lines 175-188, for the dimensions a Mesh is built
\* with (2 and 3): columns 0 and 1, and column 2 `if dim == 3`.
Mesh_get_assembly(connect, d0) ==
    Only({ Only({ IF d0 = 3
                  THEN SetColumns(a1, np_arange(2, Cols(connect) * d0, d0),
                                  ScaleShift(connect, d0, 2))
                  ELSE a1
                  : a1 \in {SetColumns(a0, np_arange(1, Cols(connect) * d0, d0),
                                       ScaleShift(connect, d0, 1))} })
           : a0 \in {SetColumns(np_zeros(Rows(connect), Cols(connect) * d0),
                                np_arange(0, Cols(connect) * d0, d0),
                                ScaleShift(connect, d0, 0))} })

\* Mesh.lignesVector_e, lines 190-193
lignesVector_e(connect, d0) ==
    reshape(np_repeat(ravel(Mesh_get_assembly(connect, d0)), Cols(connect) * d0),
            Rows(connect))

\* Mesh.colonnesVector_e, lines 195-198
colonnesVector_e(connect, d0) ==
    reshape(ravel(np_repeat_axis0(Mesh_get_assembly(connect, d0),
                                  Cols(connect) * d0)),
            Rows(connect))

\* Mesh.lignesScalar_e, lines 200-203
lignesScalar_e(connect) ==
    reshape(np_repeat(ravel(connect), Cols(connect)), Rows(connect))

\* Mesh.colonnesScalar_e, lines 205-208
colonnesScalar_e(connect) ==
    reshape(ravel(np_repeat_axis0(connect, Cols(connect))), Rows(connect))

\* The incidence matrix with a node's row filled in every column as soon as
\* one element holds the node.
connect_n_e_AnyElement(connect) ==
    [n \in 0 .. SetMax({connect[e][i] : e \in DOMAIN connect,
                                        i \in 0 .. Cols(connect) - 1}) |->
        [e \in DOMAIN connect |->
            IF \E p \in DOMAIN ravel(connect) : ravel(connect)[p] = n
            THEN 1 ELSE 0]]

\* GroupElem.connect_n_e, lines 86-101: csr_matrix((ones, (lignes, colonnes)),
\* shape=(Nn, Ne)) with Nn = lignes.max() + 1; entries given twice add up.
connect_n_e(connect) ==
    [n \in 0 .. SetMax({connect[e][i] : e \in DOMAIN connect,
                                        i \in 0 .. Cols(connect) - 1}) |->
        [e \in DOMAIN connect |->
            Cardinality({p \in DOMAIN ravel(connect) :
                /\ ravel(connect)[p] = n
                /\ np_repeat(np_arange(0, Rows(connect), 1), Cols(connect))[p] = e})]]

\* The columns sp.find lists: one per nonzero entry of the matrix, a row of
\* the matrix after the other.
RECURSIVE find_colonnes(_, _)
find_colonnes(M, i) ==
    IF i \notin DOMAIN M THEN <<>>
    ELSE SelectSeq([j \in 1 .. Cardinality(DOMAIN M[i]) |-> j - 1],
                   LAMBDA e : M[i][e] # 0)
         \o find_colonnes(M, i + 1)

\* np.unique: the distinct values in increasing order
RECURSIVE Sorted(_)
Sorted(S) ==
    IF S = {} THEN <<>>
    ELSE <<CHOOSE x \in S : \A y \in S : x <= y>>
         \o Sorted(S \ {CHOOSE x \in S : \A y \in S : x <= y})

np_unique(s) == Sorted({s[i] : i \in DOMAIN s})

\* modules/Interface_Gmsh._Construct_Mesh, line 1356: the nodes a group is
\* given, nodes = np.unique(nodeTags)
Group_nodes(connect) == np_unique(ravel(connect))

\* GroupElem.Nn, lines 76-79: self.__nodes.shape[0]
Group_Nn(connect) == Len(Group_nodes(connect))

\* GroupElem.Ne, lines 63-66: self.__connect.shape[0]
Group_Ne(connect) == Rows(connect)

\* get_elements without the filter of the exclusive mode
get_elements_Touching(connect, noeuds, exclusivement) ==
    np_unique(find_colonnes(
        [i \in 0 .. Len(noeuds) - 1 |-> connect_n_e(connect)[noeuds[i + 1]]], 0))

\* GroupElem.get_elements(noeuds, exclusivement), lines 106-118
get_elements(connect, noeuds, exclusivement) ==
    Only({ IF exclusivement
           THEN SelectSeq(elements,
                    LAMBDA e : \A n \in 0 .. Cols(connect) - 1 :
                        \E i \in DOMAIN noeuds : noeuds[i] = connect[e][n])
           ELSE elements
           : elements \in {np_unique(find_colonnes(
                 [i \in 0 .. Len(noeuds) - 1 |->
                     connect_n_e(connect)[noeuds[i + 1]]], 0))} })

\* The groups of SpecConn: a point, a segment, a triangle and a tetrahedron
\* group of 1 .. MaxNe different elements.  An element takes nPe consecutive
\* nodes from its first node on; the elements of a group are listed by
\* increasing first node and all numbered the same way, increasing or
\* decreasing.
ConnIds == {15, 1, 2, 4}
\* The dimensions Interface_Gmsh builds a Mesh with (lines 281, 288, 309).
MeshDims == {2, 3}

Window(n, b, rev) == [i \in 0 .. n - 1 |-> IF rev THEN b + n - 1 - i ELSE b + i]

Connects(n) ==
    {[e \in 0 .. Cardinality(S) - 1 |-> Window(n, Sorted(S)[e + 1], rev)]
        : S \in {T \in SUBSET (0 .. MaxNode) : T # {} /\ Cardinality(T) <= MaxNe},
          rev \in BOOLEAN}

ConnGroups ==
    UNION {{[gmshId |-> g, connect |-> c] : c \in Connects(Get_ElemInFos(g).nPe)}
           : g \in ConnIds}

NodesOf(connect) ==
    {connect[e][i] : e \in DOMAIN connect, i \in 0 .. Cols(connect) - 1}

NoResult == [op |-> "init", dim |-> 0, excl |-> FALSE, noeuds |-> <<>>, val |-> <<>>]

InitConn ==
    /\ conn \in ConnGroups
    /\ res = NoResult
    /\ GroupIdle /\ BIdle /\ MeshIdle
    /\ ShapeIdle /\ MapIdle /\ PointIdle
    /\ RenumIdle /\ SelIdle /\ TicIdle /\ GeomIdle

Answer(op, d, v) ==
    /\ res' = [NoResult EXCEPT !.op = op, !.dim = d, !.val = v]
    /\ UNCHANGED <<grp, cache, ever, ret, held, conn, bIn, bOut, mIn, mSt,
                 nIn, nOut, fIn, fOut, pts,
                 gIn, gOut, sIn, sOut, tic, geo>>

\* groupElem.assembly_e: get_assembly with dim = None, the group's dimension
Call_assembly_e ==
    Answer("assembly_e", dim(conn), get_assembly(conn.connect, dim(conn)))

Call_get_assembly ==
    \E d \in 1 .. MaxDimArg :
        Answer("get_assembly", d, get_assembly(conn.connect, d))

Call_Mesh_assembly_e ==
    /\ dim(conn) \in MeshDims
    /\ Answer("Mesh.assembly_e", dim(conn),
              Mesh_get_assembly(conn.connect, dim(conn)))

Call_lignesVector_e ==
    /\ dim(conn) \in MeshDims
    /\ Answer("lignesVector_e", dim(conn), lignesVector_e(conn.connect, dim(conn)))

Call_colonnesVector_e ==
    /\ dim(conn) \in MeshDims
    /\ Answer("colonnesVector_e", dim(conn),
              colonnesVector_e(conn.connect, dim(conn)))

Call_lignesScalar_e ==
    /\ dim(conn) \in MeshDims
    /\ Answer("lignesScalar_e", dim(conn), lignesScalar_e(conn.connect))

Call_colonnesScalar_e ==
    /\ dim(conn) \in MeshDims
    /\ Answer("colonnesScalar_e", dim(conn), colonnesScalar_e(conn.connect))

\* The query names nodes of the connectivity, each once, in increasing order.
Call_get_elements ==
    \E Q \in (SUBSET NodesOf(conn.connect)) \ {{}}, x \in BOOLEAN :
        /\ res' = [op |-> "get_elements", dim |-> dim(conn), excl |-> x,
                   noeuds |-> Sorted(Q),
                   val |-> get_elements(conn.connect, Sorted(Q), x)]
        /\ UNCHANGED <<grp, cache, ever, ret, held, conn, bIn, bOut, mIn, mSt,
                     nIn, nOut, fIn, fOut, pts,
                 gIn, gOut, sIn, sOut, tic, geo>>

Call_connect_n_e ==
    Answer("connect_n_e", dim(conn), connect_n_e(conn.connect))

NextConn ==
    \/ Call_assembly_e
    \/ Call_get_assembly
    \/ Call_Mesh_assembly_e
    \/ Call_lignesVector_e
    \/ Call_colonnesVector_e
    \/ Call_lignesScalar_e
    \/ Call_colonnesScalar_e
    \/ Call_get_elements
    \/ Call_connect_n_e

SpecConn == InitConn /\ [][NextConn]_vars

(***************************************************************************)
(* Claims on SpecConn.                                                     *)
(***************************************************************************)
\* C1: the assembly matrix of GroupElem.get_assembly (any dim >= 1, and the
\* group's own dimension) and of Mesh.assembly_e has shape (Ne, nPe*dim) and
\* assembly_e[e][n*dim + d] = connect[e][n]*dim + d.
C1_AssemblyFormula ==
    res.op \in {"get_assembly", "assembly_e", "Mesh.assembly_e"}
    => /\ DOMAIN res.val = DOMAIN conn.connect
       /\ \A e \in DOMAIN res.val :
            /\ DOMAIN res.val[e] = 0 .. nPe(conn) * res.dim - 1
            /\ \A n \in 0 .. nPe(conn) - 1, d \in 0 .. res.dim - 1 :
                    res.val[e][n * res.dim + d] = conn.connect[e][n] * res.dim + d

\* C1 witness: get_assembly(dim=3) on a group of two different triangles.
C1_Witness ==
    /\ res.op = "get_assembly" /\ res.dim = 3 /\ dim(conn) = 2
    /\ Rows(conn.connect) >= 2 /\ conn.connect[0] # conn.connect[1]
    /\ res.val[1][8] = conn.connect[1][2] * 3 + 2

\* C2: with T = nPe*dim, lignesVector_e[e][i*T + j] = assembly_e[e][i] and
\* colonnesVector_e[e][i*T + j] = assembly_e[e][j] for i, j < T; with nPe for
\* T and connect for assembly_e the same holds of lignesScalar_e and
\* colonnesScalar_e; every row holds each ordered pair once (T*T entries).
C2_ScatterRowMajor ==
    /\ res.op \in {"lignesVector_e", "colonnesVector_e"}
       => /\ DOMAIN res.val = DOMAIN conn.connect
          /\ \A e \in DOMAIN res.val :
                /\ DOMAIN res.val[e]
                        = 0 .. (nPe(conn) * res.dim) * (nPe(conn) * res.dim) - 1
                /\ \A i, j \in 0 .. nPe(conn) * res.dim - 1 :
                      res.val[e][i * (nPe(conn) * res.dim) + j]
                        = get_assembly(conn.connect, res.dim)
                              [e][IF res.op = "lignesVector_e" THEN i ELSE j]
    /\ res.op \in {"lignesScalar_e", "colonnesScalar_e"}
       => /\ DOMAIN res.val = DOMAIN conn.connect
          /\ \A e \in DOMAIN res.val :
                /\ DOMAIN res.val[e] = 0 .. nPe(conn) * nPe(conn) - 1
                /\ \A i, j \in 0 .. nPe(conn) - 1 :
                      res.val[e][i * nPe(conn) + j]
                        = conn.connect[e][IF res.op = "lignesScalar_e" THEN i ELSE j]

\* C2 witness: colonnesVector_e of a mesh of two different triangles.
C2_Witness ==
    /\ res.op = "colonnesVector_e" /\ nPe(conn) = 3
    /\ Rows(conn.connect) >= 2 /\ conn.connect[0] # conn.connect[1]
    /\ res.val[1][6 + 5] = conn.connect[1][2] * 2 + 1

\* C9: get_elements returns, each once, exactly the elements with a node in
\* the query set (exclusivement=False) or with all their nodes in it
\* (exclusivement=True).
C9_IncidenceExact ==
    res.op = "get_elements"
    => /\ \A i, j \in DOMAIN res.val : res.val[i] = res.val[j] => i = j
       /\ {res.val[i] : i \in DOMAIN res.val}
            = {e \in DOMAIN conn.connect :
                    IF res.excl
                    THEN \A n \in 0 .. nPe(conn) - 1 :
                            \E q \in DOMAIN res.noeuds :
                                res.noeuds[q] = conn.connect[e][n]
                    ELSE \E n \in 0 .. nPe(conn) - 1 :
                            \E q \in DOMAIN res.noeuds :
                                res.noeuds[q] = conn.connect[e][n]}

\* C9 witness: an exclusive query that touches both elements of a group and
\* holds all the nodes of the second one only.
C9_Witness ==
    /\ res.op = "get_elements" /\ res.excl /\ nPe(conn) >= 2
    /\ Rows(conn.connect) = 2
    /\ res.val = <<1>>
    /\ \E q \in DOMAIN res.noeuds : \E n \in 0 .. nPe(conn) - 1 :
            res.noeuds[q] = conn.connect[0][n]

\* connect_n_e * valeurs_e: row n times the vector
MatVec(M, valeurs_e) ==
    [n \in DOMAIN M |->
        SumTo([k \in 1 .. Cardinality(DOMAIN M[n]) |->
                  M[n][k - 1] * valeurs_e[k - 1]], Cardinality(DOMAIN M[n]))]

\* The elements with node n among their nodes.
ElementsAround(connect, n) ==
    {e \in DOMAIN connect : \E i \in 0 .. Cols(connect) - 1 : connect[e][i] = n}

RECURSIVE SumOver(_, _)
SumOver(valeurs_e, S) ==
    IF S = {} THEN 0
    ELSE valeurs_e[SetMax(S)] + SumOver(valeurs_e, S \ {SetMax(S)})

\* The per-element vectors the matrix is multiplied by.
Valeurs(connect) == [DOMAIN connect -> {1, 2}]

\* Entry (n, e) is 1 when node n belongs to element e and 0 otherwise, and
\* the product with a per-element vector sums the elements around each node.
IncidenceEntries(M, connect) ==
    /\ \A n \in DOMAIN M :
         /\ DOMAIN M[n] = 0 .. Group_Ne(connect) - 1
         /\ \A e \in DOMAIN M[n] :
              M[n][e] = IF e \in ElementsAround(connect, n) THEN 1 ELSE 0
    /\ \A v \in Valeurs(connect) : \A n \in DOMAIN M :
         MatVec(M, v)[n] = SumOver(v, ElementsAround(connect, n))

\* C20 as stated: GroupElem.connect_n_e is a 0/1 incidence matrix with Nn
\* rows, Nn the node count of the group, and Ne columns; entry (n, e) is 1
\* exactly when node n belongs to element e, and its product with a
\* per-element vector sums the values of the elements around each node.
C20_IncidenceNnRows ==
    res.op = "connect_n_e"
    => /\ DOMAIN res.val = 0 .. Group_Nn(conn.connect) - 1
       /\ IncidenceEntries(res.val, conn.connect)

\* C20 amended: GroupElem.connect_n_e is a 0/1 incidence matrix with one row
\* per node number from 0 to the largest node number of the group's
\* connectivity, and Ne columns; entry (n, e) is 1 exactly when node n
\* belongs to element e, and its product with a per-element vector sums the
\* values of the elements around each node.
C20_IncidenceMaxNodeRows ==
    res.op = "connect_n_e"
    => /\ DOMAIN res.val = 0 .. SetMax(NodesOf(conn.connect))
       /\ IncidenceEntries(res.val, conn.connect)

\* C20 witness: the matrix of a group of segments or triangles that does not
\* use node 0: a row more than the group has nodes, row 0 empty, and the
\* first element in the row of its first node.
C20_Witness ==
    /\ res.op = "connect_n_e" /\ nPe(conn) >= 2
    /\ 0 \notin NodesOf(conn.connect)
    /\ Rows(res.val) = Group_Nn(conn.connect) + 1
    /\ res.val[0][0] = 0
    /\ res.val[conn.connect[0][0]][0] = 1

(***************************************************************************)
(* SpecB: the strain-displacement operator of one element at one           *)
(* quadrature point, built from the slice dN = dN_e_pg[e, pg] of the       *)
(* derivatives: dN[0][n] = dN_n/dx, dN[1][n] = dN_n/dy, dN[2][n] = dN_n/dz.*)
(* An entry of the operator is [v, km]: the value v put there, and whether *)
(* the Kelvin-Mandel coefficient multiplies it.                            *)
(***************************************************************************)
\* The derivatives of SpecB range over -MaxDeriv .. MaxDeriv.
MaxDeriv == 1

Entry(v) == [v |-> v, km |-> FALSE]

\* np.zeros((R, C)) of B_e_pg = np.array([[np.zeros((R, C))]*nPg]*Ne)
zerosB(R, C) == [i \in 0 .. R - 1 |-> [j \in 0 .. C - 1 |-> Entry(0)]]

\* B_e_pg[:,:,row,cols] = d at one (e, pg)
SetRow(B, row, cols, d) ==
    [B EXCEPT ![row] =
        [j \in DOMAIN B[row] |->
            IF \E n \in DOMAIN cols : cols[n] = j
            THEN Entry(d[CHOOSE n \in DOMAIN cols : cols[n] = j])
            ELSE B[row][j]]]

\* The 2D branch with the two normal-strain rows filled from the wrong
\* derivative.
B_2D_Swapped(n, dN) ==
    SetRow(SetRow(SetRow(SetRow(zerosB(3, n * 2),
        0, np_arange(0, n * 2, 2), dN[1]),
        1, np_arange(1, n * 2, 2), dN[0]),
        2, np_arange(0, n * 2, 2), dN[1]),
        2, np_arange(1, n * 2, 2), dN[0])

\* GroupElem.get_B_dep_e_pg lines 264-274 and Mesh.get_B_dep_e_pg lines
\* 276-286, the branch of dimension 2
B_2D(n, dN) ==
    SetRow(SetRow(SetRow(SetRow(zerosB(3, n * 2),
        0, np_arange(0, n * 2, 2), dN[0]),
        1, np_arange(1, n * 2, 2), dN[1]),
        2, np_arange(0, n * 2, 2), dN[1]),
        2, np_arange(1, n * 2, 2), dN[0])

\* GroupElem.get_B_dep_e_pg lines 275-289 and Mesh.get_B_dep_e_pg lines
\* 287-301, the other branch
B_3D(n, dN) ==
    SetRow(SetRow(SetRow(SetRow(SetRow(SetRow(SetRow(SetRow(SetRow(
        zerosB(6, n * 3),
        0, np_arange(0, n * 3, 3), dN[0]),
        1, np_arange(1, n * 3, 3), dN[1]),
        2, np_arange(2, n * 3, 3), dN[2]),
        3, np_arange(1, n * 3, 3), dN[2]),
        3, np_arange(2, n * 3, 3), dN[1]),
        4, np_arange(0, n * 3, 3), dN[2]),
        4, np_arange(2, n * 3, 3), dN[0]),
        5, np_arange(0, n * 3, 3), dN[1]),
        5, np_arange(1, n * 3, 3), dN[0])

\* Mesh.get_B_dep_e_pg, lines 256-303
Mesh_get_B_dep_e_pg(b) ==
    IF b.dim = 2 THEN B_2D(b.nPe, b.dN) ELSE B_3D(b.nPe, b.dN)

\* Materiau.LoiDeComportement.AppliqueCoefSurBrigi(dim, B_e_pg): the one
\* Kelvin-Mandel coefficient applied to the shear rows, row 2 in dimension 2
\* and rows 3, 4, 5 in dimension 3.
AppliqueCoefSurBrigi(d0, B) ==
    [i \in DOMAIN B |->
        [j \in DOMAIN B[i] |->
            IF (d0 = 2 /\ i = 2) \/ (d0 = 3 /\ i \in {3, 4, 5})
            THEN [B[i][j] EXCEPT !.km = TRUE]
            ELSE B[i][j]]]

\* GroupElem.get_B_dep_e_pg, lines 241-296, on a key that is not in the dict
GroupElem_get_B_dep_e_pg(b) ==
    AppliqueCoefSurBrigi(b.dim,
        IF b.dim = 2 THEN B_2D(b.nPe, b.dN) ELSE B_3D(b.nPe, b.dN))

\* The derivatives of the shape functions add up to zero over the nodes of
\* an element, and the derivatives along the axes are independent.
ZeroSumRows(n) ==
    {r \in [0 .. n - 1 -> -MaxDeriv .. MaxDeriv] :
        SumTo([k \in 1 .. n |-> r[k - 1]], n) = 0}

Independent2(dx, dy) ==
    \E i, j \in DOMAIN dx : dx[i] * dy[j] - dx[j] * dy[i] # 0

Independent3(dx, dy, dz) ==
    \E i, j, k \in DOMAIN dx :
        Det(<< <<dx[i], dx[j], dx[k]>>, <<dy[i], dy[j], dy[k]>>,
               <<dz[i], dz[j], dz[k]>> >>) # 0

\* Triangles and quadrangles with any pair of independent derivatives; a
\* tetrahedron with dN/dz the derivative dN/dy moved by one node.
Slices2D(n) ==
    {[dim |-> 2, nPe |-> n, dN |-> [d \in 0 .. 1 |-> p[d + 1]]]
        : p \in {q \in ZeroSumRows(n) \X ZeroSumRows(n) :
                    Independent2(q[1], q[2])}}

Shifted(r) == [k \in 0 .. 3 |-> r[(k + 1) % 4]]

Slices3D ==
    {[dim |-> 3, nPe |-> 4,
      dN |-> [d \in 0 .. 2 |-> IF d = 2 THEN Shifted(p[2]) ELSE p[d + 1]]]
        : p \in {q \in ZeroSumRows(4) \X ZeroSumRows(4) :
                    Independent3(q[1], q[2], Shifted(q[2]))}}

BSlices == Slices2D(3) \cup Slices2D(4) \cup Slices3D

InitB ==
    /\ bIn \in BSlices
    /\ bOut = [by |-> "init", B |-> <<>>]
    /\ GroupIdle /\ ConnIdle /\ MeshIdle
    /\ ShapeIdle /\ MapIdle /\ PointIdle
    /\ RenumIdle /\ SelIdle /\ TicIdle /\ GeomIdle

Call_GroupElem_get_B_dep_e_pg ==
    /\ bOut' = [by |-> "GroupElem", B |-> GroupElem_get_B_dep_e_pg(bIn)]
    /\ UNCHANGED <<grp, cache, ever, ret, held, conn, res, bIn, mIn, mSt,
                 nIn, nOut, fIn, fOut, pts,
                 gIn, gOut, sIn, sOut, tic, geo>>

Call_Mesh_get_B_dep_e_pg ==
    /\ bOut' = [by |-> "Mesh", B |-> Mesh_get_B_dep_e_pg(bIn)]
    /\ UNCHANGED <<grp, cache, ever, ret, held, conn, res, bIn, mIn, mSt,
                 nIn, nOut, fIn, fOut, pts,
                 gIn, gOut, sIn, sOut, tic, geo>>

NextB ==
    \/ Call_GroupElem_get_B_dep_e_pg
    \/ Call_Mesh_get_B_dep_e_pg

SpecB == InitB /\ [][NextB]_vars

(***************************************************************************)
(* Claims on SpecB.                                                        *)
(***************************************************************************)
\* C10: in dimension 2 the operator has 3 rows and 2*nPe columns; for every
\* node n row 0 holds dN_n/dx at column 2n, row 1 holds dN_n/dy at column
\* 2n+1, row 2 holds dN_n/dy at column 2n and dN_n/dx at column 2n+1; every
\* other entry is zero; the Kelvin-Mandel coefficient multiplies row 2, and
\* only row 2, and only in GroupElem.
C10_Layout2D ==
    (bOut.by # "init" /\ bIn.dim = 2)
    => /\ DOMAIN bOut.B = 0 .. 2
       /\ \A i \in 0 .. 2 : DOMAIN bOut.B[i] = 0 .. 2 * bIn.nPe - 1
       /\ \A n \in 0 .. bIn.nPe - 1 :
            /\ bOut.B[0][2 * n].v = bIn.dN[0][n]
            /\ bOut.B[0][2 * n + 1].v = 0
            /\ bOut.B[1][2 * n].v = 0
            /\ bOut.B[1][2 * n + 1].v = bIn.dN[1][n]
            /\ bOut.B[2][2 * n].v = bIn.dN[1][n]
            /\ bOut.B[2][2 * n + 1].v = bIn.dN[0][n]
       /\ \A i \in 0 .. 2, j \in 0 .. 2 * bIn.nPe - 1 :
            bOut.B[i][j].km = (bOut.by = "GroupElem" /\ i = 2)

\* C10 witness: GroupElem's operator of a triangle whose last node has
\* dN/dx = 1 and dN/dy = -1.
C10_Witness ==
    /\ bOut.by = "GroupElem" /\ bIn.dim = 2 /\ bIn.nPe = 3
    /\ bIn.dN[0][2] = 1 /\ bIn.dN[1][2] = -1
    /\ bOut.B[2][4] = [v |-> -1, km |-> TRUE]
    /\ bOut.B[2][5] = [v |-> 1, km |-> TRUE]

\* C11: in dimension 3 the operator has 6 rows and 3*nPe columns and is the
\* per-node construction of the test: for every node n, row 0 holds dN_n/dx
\* at column 3n, row 1 holds dN_n/dy at column 3n+1, row 2 holds dN_n/dz at
\* column 3n+2, row 3 holds dN_n/dy at column 3n and dN_n/dx at column 3n+1,
\* row 4 holds dN_n/dz at column 3n+1 and dN_n/dy at column 3n+2, row 5
\* holds dN_n/dz at column 3n and dN_n/dx at column 3n+2; every other entry
\* is zero.
C11_Layout3D ==
    (bOut.by # "init" /\ bIn.dim = 3)
    => /\ DOMAIN bOut.B = 0 .. 5
       /\ \A i \in 0 .. 5 : DOMAIN bOut.B[i] = 0 .. 3 * bIn.nPe - 1
       /\ \A n \in 0 .. bIn.nPe - 1 :
            /\ bOut.B[0][3 * n].v = bIn.dN[0][n]
            /\ bOut.B[0][3 * n + 1].v = 0
            /\ bOut.B[0][3 * n + 2].v = 0
            /\ bOut.B[1][3 * n].v = 0
            /\ bOut.B[1][3 * n + 1].v = bIn.dN[1][n]
            /\ bOut.B[1][3 * n + 2].v = 0
            /\ bOut.B[2][3 * n].v = 0
            /\ bOut.B[2][3 * n + 1].v = 0
            /\ bOut.B[2][3 * n + 2].v = bIn.dN[2][n]
            /\ bOut.B[3][3 * n].v = bIn.dN[1][n]
            /\ bOut.B[3][3 * n + 1].v = bIn.dN[0][n]
            /\ bOut.B[3][3 * n + 2].v = 0
            /\ bOut.B[4][3 * n].v = 0
            /\ bOut.B[4][3 * n + 1].v = bIn.dN[2][n]
            /\ bOut.B[4][3 * n + 2].v = bIn.dN[1][n]
            /\ bOut.B[5][3 * n].v = bIn.dN[2][n]
            /\ bOut.B[5][3 * n + 1].v = 0
            /\ bOut.B[5][3 * n + 2].v = bIn.dN[0][n]

(***************************************************************************)
(* The timer of modules/TicTac.py.  The clock is counted in whole seconds; *)
(* Tic.__History is one class attribute, start holds the __start of the    *)
(* instances.  A timer t is [clock, start, History, ...].                  *)
(***************************************************************************)
\* The clock runs up to MaxClock; at most MaxTacs entries are timed.
MaxClock == 2
MaxTacs == 2

Abs(x) == IF x < 0 THEN -x ELSE x

\* Tic.__init__(): the new instance's __start
Tic_init(now) == now

\* Tic.Tac(category, text) on the instance self; now1 and now2 are the two
\* readings of time.time().  The text printed under verbosity (lines 46-48,
\* 61-62) is no part of the state and is left out.
Tic_Tac_Replacing(t, self, category, text, now1, now2) ==
    [History |-> [c \in DOMAIN t.History \cup {category} |->
                    IF c = category
                    THEN <<<<text, Abs(t.start[self] - now1)>>>>
                    ELSE t.History[c]],
     start |-> [t.start EXCEPT ![self] = now2],
     tf |-> Abs(t.start[self] - now1)]

Tic_Tac(t, self, category, text, now1, now2) ==
    Only({ [History |-> [c \in DOMAIN t.History \cup {category} |->
                           IF c # category THEN t.History[c]
                           ELSE IF category \in DOMAIN t.History
                                THEN Append(t.History[category], <<text, tf>>)
                                ELSE <<<<text, tf>>>>],
            start |-> [t.start EXCEPT ![self] = now2],
            tf |-> tf]
           : tf \in {Abs(t.start[self] - now1)} })

\* The timer when the program starts: __History = {} (line 71), no instance.
Tic_start == [clock |-> 0, start |-> <<>>, History |-> <<>>]

\* The entries timed so far under a category
Tic_count(t, category) ==
    IF category \in DOMAIN t.History THEN Len(t.History[category]) ELSE 0

\* modules/Interface_Gmsh._Construct_Mesh, lines 1305 and 1400: tic = Tic()
\* on entry and, when the body raised nothing,
\* tic.Tac("Mesh", "Construct mesh object"), d seconds later.  The instance
\* is local to the call.
Construct_Mesh_tic(t, raised, d) ==
    IF raised THEN [t EXCEPT !.clock = t.clock + d]
    ELSE Only({ [t EXCEPT !.clock = t.clock + d, !.History = r.History]
                : r \in {Tic_Tac([t EXCEPT !.start = Append(t.start,
                                                      Tic_init(t.clock))],
                                 Len(t.start) + 1, "Mesh",
                                 "Construct mesh object",
                                 t.clock + d, t.clock + d)} })

(***************************************************************************)
(* SpecMesh: the loops that turn the element types the mesher holds into   *)
(* the element groups of a mesh.  A group is named by its type id; its     *)
(* type and dimension are those of Get_ElemInFos.                          *)
(***************************************************************************)
\* The mesher holds 1 .. MaxTypes element types.
MaxTypes == 3

\* d[k] = v on a dict
DictSet(d, k, v) == [x \in DOMAIN d \cup {k} |-> IF x = k THEN v ELSE d[x]]

SeqRange(s) == {s[i] : i \in DOMAIN s}

\* modules/Interface_Gmsh._Construct_Mesh, lines 1339-1374: the loop
\* `for gmshId in elementTypes`, then Mesh(dict_groupElem)
RECURSIVE Construct_Mesh_loop(_, _, _, _, _)
Construct_Mesh_loop(meshDim, elementTypes, i, dict_groupElem, knownDims) ==
    IF i > Len(elementTypes)
    THEN [status |-> "mesh", err |-> "", groups |-> dict_groupElem]
    ELSE IF /\ Get_ElemInFos(elementTypes[i]).dim \in SeqRange(knownDims)
            /\ Get_ElemInFos(elementTypes[i]).dim = meshDim
    THEN [status |-> "error", err |-> "Exception",
          groups |-> DictSet(dict_groupElem,
                             Get_ElemInFos(elementTypes[i]).type, elementTypes[i])]
    ELSE Construct_Mesh_loop(meshDim, elementTypes, i + 1,
            DictSet(dict_groupElem, Get_ElemInFos(elementTypes[i]).type,
                    elementTypes[i]),
            Append(knownDims, Get_ElemInFos(elementTypes[i]).dim))

Construct_Mesh(m) == Construct_Mesh_loop(m.meshDim, m.types, 1, <<>>, <<>>)

\* classes/Interface_Gmsh.__ConstructionCoordoConnect, lines 236-241: the
\* loop over the element types.  Line 240 calls GroupElem(gmshId,
\* elementTags[t]-1, nodeTags[t]-1, coordo) with four arguments where
\* GroupElem.__init__ (classes/GroupElem.py, lines 17-19) requires five
\* (nodes is missing): the first pass raises a TypeError and line 241 is
\* never reached.
listGmshElem_loop(elementTypes, t, listGmshElem) ==
    IF t > Len(elementTypes)
    THEN [err |-> "", listGmshElem |-> listGmshElem]
    ELSE [err |-> "TypeError", listGmshElem |-> listGmshElem]

\* __ConstructionCoordoConnect, lines 222-252: the loop, then
\* gmshElem = listGmshElem[dim], connect and coordo taken from it
ConstructionCoordoConnect(m) ==
    Only({ IF loop.err # ""
           THEN [status |-> "error", err |-> loop.err, groups |-> <<>>]
           ELSE IF m.meshDim \in DOMAIN loop.listGmshElem
           THEN [status |-> "mesh", err |-> "",
                 groups |-> [x \in {m.meshDim} |->
                               loop.listGmshElem[m.meshDim]]]
           ELSE [status |-> "error", err |-> "KeyError", groups |-> <<>>]
           : loop \in {listGmshElem_loop(m.types, 1, <<>>)} })

\* The types of SpecMesh: POINT, SEG2, SEG3, TRI3, QUAD4, TETRA4, HEXA8.  The
\* mesher lists each type it holds once, and holds no element of a dimension
\* above the model's.
MeshIds == {15, 1, 8, 2, 3, 4, 5}
\* The dimensions of the __ConstructionCoordoConnect calls (lines 62, 104, 167).
LegacyDims == {2, 3}

RECURSIVE DistinctSeqs(_, _)
DistinctSeqs(S, n) ==
    IF n = 0 THEN {<<>>}
    ELSE {Append(s, x) : <<s, x>> \in
              {p \in DistinctSeqs(S, n - 1) \X S : p[2] \notin SeqRange(p[1])}}

MeshInputs ==
    UNION {{[meshDim |-> d, types |-> s] :
                s \in UNION {DistinctSeqs({g \in MeshIds : Get_ElemInFos(g).dim <= d}, n)
                             : n \in 1 .. MaxTypes}}
           : d \in 1 .. 3}

InitMesh ==
    /\ mIn \in MeshInputs
    /\ mSt = [path |-> "", status |-> "init", err |-> "", groups |-> <<>>]
    /\ tic = Tic_start
    /\ GroupIdle /\ ConnIdle /\ BIdle
    /\ ShapeIdle /\ MapIdle /\ PointIdle
    /\ RenumIdle /\ SelIdle /\ GeomIdle

Built(path, r, t) ==
    /\ mSt' = [path |-> path, status |-> r.status, err |-> r.err,
               groups |-> r.groups]
    /\ tic' = t
    /\ UNCHANGED <<grp, cache, ever, ret, held, conn, res, bIn, bOut, mIn,
                 nIn, nOut, fIn, fOut, pts,
                 gIn, gOut, sIn, sOut, geo>>

\* _Construct_Mesh() takes d seconds and times itself when it succeeds.
Call_Construct_Mesh ==
    /\ Tic_count(tic, "Mesh") < MaxTacs
    /\ \E d \in 0 .. 1 :
         /\ tic.clock + d <= MaxClock
         /\ \E r \in {Construct_Mesh(mIn)} :
              Built("_Construct_Mesh", r,
                    Construct_Mesh_tic(tic, r.status = "error", d))

\* __ConstructionCoordoConnect(dim): every run ends in the error of line
\* 240 or 243, before the tic.Tac of line 250, and leaves the history as it
\* was.
Call_ConstructionCoordoConnect ==
    /\ mIn.meshDim \in LegacyDims
    /\ Built("__ConstructionCoordoConnect", ConstructionCoordoConnect(mIn),
             tic)

NextMesh ==
    \/ Call_Construct_Mesh
    \/ Call_ConstructionCoordoConnect

SpecMesh == InitMesh /\ [][NextMesh]_vars

(***************************************************************************)
(* Claims on SpecMesh.                                                     *)
(***************************************************************************)
\* The types of the mesh's own dimension among those the mesher holds.
PrincipalTypes(m) ==
    {i \in DOMAIN m.types : Get_ElemInFos(m.types[i]).dim = m.meshDim}

RECURSIVE Gcd(_, _)
Gcd(a, b) == IF b = 0 THEN a ELSE Gcd(b, a % b)

NonFinite == [n |-> 0, d |-> 0]

Rat(n, d) ==
    IF d = 0 THEN NonFinite
    ELSE [n |-> Sign(d) * (n \div Gcd(Abs(n), Abs(d))),
          d |-> Abs(d) \div Gcd(Abs(n), Abs(d))]

RInt(k) == [n |-> k, d |-> 1]
RAdd(a, b) == Rat(a.n * b.d + b.n * a.d, a.d * b.d)
RSub(a, b) == Rat(a.n * b.d - b.n * a.d, a.d * b.d)
RMul(a, b) == Rat(a.n * b.n, a.d * b.d)
\* a / b; a division by zero gives inf or nan (with a warning only)
RDiv(a, b) == IF a.d = 0 \/ b.d = 0 THEN NonFinite ELSE Rat(a.n * b.d, a.d * b.n)
RNeg(a) == [n |-> -a.n, d |-> a.d]

\* np.array([...]) of a Python list: indexed from 0
Arr0(s) == [i \in 0 .. Len(s) - 1 |-> s[i + 1]]

RECURSIVE RSum(_, _)
RSum(f, n) == IF n = 0 THEN RInt(0) ELSE RAdd(RSum(f, n - 1), f[n - 1])

(***************************************************************************)
(* SpecN: the shape functions of one group evaluated at the points of a    *)
(* quadrature rule, by one call of __get_N_pg or get_N_pg (neither keeps   *)
(* anything from one call to the next).  c is one row coord[pg] of         *)
(* gauss.coord.                                                            *)
(***************************************************************************)
\* __get_N_pg, lines 528-533
N_SEG2(c) ==
    Arr0(<< RMul(Rat(1, 2), RSub(RInt(1), c[0])),
            RMul(Rat(1, 2), RAdd(RInt(1), c[0])) >>)

\* __get_N_pg, lines 535-541
N_SEG3(c) ==
    Arr0(<< RMul(RMul(Rat(-1, 2), RSub(RInt(1), c[0])), c[0]),
            RMul(RMul(Rat(1, 2), RAdd(RInt(1), c[0])), c[0]),
            RMul(RAdd(RInt(1), c[0]), RSub(RInt(1), c[0])) >>)

\* __get_N_pg, lines 543-549
N_TRI3(c) ==
    Arr0(<< RSub(RSub(RInt(1), c[0]), c[1]), c[0], c[1] >>)

\* TRI6 with the corner functions of the wrong sign.
N_TRI6_Unsigned(c) ==
    Only({ Arr0(<< RMul(L, RSub(RInt(1), RMul(RInt(2), L))),
                   RMul(c[0], RSub(RInt(1), RMul(RInt(2), c[0]))),
                   RMul(c[1], RSub(RInt(1), RMul(RInt(2), c[1]))),
                   RMul(RMul(RInt(4), c[0]), L),
                   RMul(RMul(RInt(4), c[0]), c[1]),
                   RMul(RMul(RInt(4), c[1]), L) >>)
           : L \in {RSub(RSub(RInt(1), c[0]), c[1])} })

\* __get_N_pg, lines 551-560; L is the 1-ksi-eta of the lambdas
N_TRI6(c) ==
    Only({ Arr0(<< RMul(RNeg(L), RSub(RInt(1), RMul(RInt(2), L))),
                   RMul(RNeg(c[0]), RSub(RInt(1), RMul(RInt(2), c[0]))),
                   RMul(RNeg(c[1]), RSub(RInt(1), RMul(RInt(2), c[1]))),
                   RMul(RMul(RInt(4), c[0]), L),
                   RMul(RMul(RInt(4), c[0]), c[1]),
                   RMul(RMul(RInt(4), c[1]), L) >>)
           : L \in {RSub(RSub(RInt(1), c[0]), c[1])} })

\* __get_N_pg, lines 562-569
N_QUAD4(c) ==
    Arr0(<< RDiv(RMul(RSub(RInt(1), c[0]), RSub(RInt(1), c[1])), RInt(4)),
            RDiv(RMul(RAdd(RInt(1), c[0]), RSub(RInt(1), c[1])), RInt(4)),
            RDiv(RMul(RAdd(RInt(1), c[0]), RAdd(RInt(1), c[1])), RInt(4)),
            RDiv(RMul(RSub(RInt(1), c[0]), RAdd(RInt(1), c[1])), RInt(4)) >>)

\* __get_N_pg, lines 571-582
N_QUAD8(c) ==
    Arr0(<< RDiv(RMul(RMul(RSub(RInt(1), c[0]), RSub(RInt(1), c[1])),
                      RSub(RSub(RInt(-1), c[0]), c[1])), RInt(4)),
            RDiv(RMul(RMul(RAdd(RInt(1), c[0]), RSub(RInt(1), c[1])),
                      RSub(RAdd(RInt(-1), c[0]), c[1])), RInt(4)),
            RDiv(RMul(RMul(RAdd(RInt(1), c[0]), RAdd(RInt(1), c[1])),
                      RAdd(RAdd(RInt(-1), c[0]), c[1])), RInt(4)),
            RDiv(RMul(RMul(RSub(RInt(1), c[0]), RAdd(RInt(1), c[1])),
                      RAdd(RSub(RInt(-1), c[0]), c[1])), RInt(4)),
            RDiv(RMul(RSub(RInt(1), RMul(c[0], c[0])), RSub(RInt(1), c[1])),
                 RInt(2)),
            RDiv(RMul(RAdd(RInt(1), c[0]), RSub(RInt(1), RMul(c[1], c[1]))),
                 RInt(2)),
            RDiv(RMul(RSub(RInt(1), RMul(c[0], c[0])), RAdd(RInt(1), c[1])),
                 RInt(2)),
            RDiv(RMul(RSub(RInt(1), c[0]), RSub(RInt(1), RMul(c[1], c[1]))),
                 RInt(2)) >>)

\* __get_N_pg, lines 584-591
N_TETRA4(c) ==
    Arr0(<< RSub(RSub(RSub(RInt(1), c[0]), c[1]), c[2]), c[0], c[1], c[2] >>)

\* 1/8 * (1 + sx x) * (1 + sy y) * (1 + sz z)
Trilinear(c, sx, sy, sz) ==
    RMul(RMul(RMul(Rat(1, 8), RAdd(RInt(1), RMul(RInt(sx), c[0]))),
              RAdd(RInt(1), RMul(RInt(sy), c[1]))),
         RAdd(RInt(1), RMul(RInt(sz), c[2])))

\* __get_N_pg, lines 593-604
N_HEXA8(c) ==
    Arr0(<< Trilinear(c, -1, -1, -1), Trilinear(c, 1, -1, -1),
            Trilinear(c, 1, 1, -1),   Trilinear(c, -1, 1, -1),
            Trilinear(c, -1, -1, 1),  Trilinear(c, 1, -1, 1),
            Trilinear(c, 1, 1, 1),    Trilinear(c, -1, 1, 1) >>)

\* The lambdas N1t .. N6t of PRISM6, lines 608-613
PrismLambdas(c) ==
    << RMul(RMul(Rat(1, 2), c[1]), RSub(RInt(1), c[0])),
       RMul(RMul(Rat(1, 2), c[2]), RSub(RInt(1), c[0])),
       RMul(RMul(Rat(1, 2), RSub(RSub(RInt(1), c[1]), c[2])),
            RSub(RInt(1), c[0])),
       RMul(RMul(Rat(1, 2), c[1]), RAdd(RInt(1), c[0])),
       RMul(RMul(Rat(1, 2), c[2]), RAdd(RInt(1), c[0])),
       RMul(RMul(Rat(1, 2), RSub(RSub(RInt(1), c[1]), c[2])),
            RAdd(RInt(1), c[0])) >>

\* PRISM6 in the order of the lambdas: [N1t, N2t, N3t, N4t, N5t, N6t].
N_PRISM6_Unpermuted(c) ==
    Arr0(PrismLambdas(c))

\* __get_N_pg, line 616: Ntild = [N3t, N1t, N2t, N6t, N4t, N5t]
N_PRISM6(c) ==
    Arr0(<< PrismLambdas(c)[3], PrismLambdas(c)[1], PrismLambdas(c)[2],
            PrismLambdas(c)[6], PrismLambdas(c)[4], PrismLambdas(c)[5] >>)

\* The if/elif chain of __get_N_pg, lines 528-630, on a type of ShapeTypes:
\* Ntild applied to one row of gauss.coord
Ntild(type, c) ==
    CASE type = "SEG2"   -> N_SEG2(c)
      [] type = "SEG3"   -> N_SEG3(c)
      [] type = "TRI3"   -> N_TRI3(c)
      [] type = "TRI6"   -> N_TRI6(c)
      [] type = "QUAD4"  -> N_QUAD4(c)
      [] type = "QUAD8"  -> N_QUAD8(c)
      [] type = "TETRA4" -> N_TETRA4(c)
      [] type = "HEXA8"  -> N_HEXA8(c)
      [] type = "PRISM6" -> N_PRISM6(c)

\* What a call gives back: an array, None, or an exception.
ShapeReturn(v) == [status |-> "return", err |-> "", val |-> v]
ShapeNone == [status |-> "none", err |-> "", val |-> <<>>]
ShapeRaise(e) == [status |-> "error", err |-> e, val |-> <<>>]

\* __get_N_pg, lines 522-649: N_pg[pg, 0, n] = Nt(coord[pg, ...])
Shape_priv_get_N_pg(n) ==
    IF dim(n) = 0 THEN ShapeNone
    ELSE IF ~ShapeTypes(elemType(n)) THEN ShapeRaise("TypeError")
    ELSE ShapeReturn([pg \in DOMAIN n.coord |->
                        [z \in {0} |-> Ntild(elemType(n), n.coord[pg])]])

\* The vectorized matrix filled by blocks, one block of nPe columns per
\* component.
N_vect_pg_Blocked(N_pg, repetition) ==
    [pg \in DOMAIN N_pg |->
        [r \in 0 .. repetition - 1 |->
            [j \in 0 .. Cardinality(DOMAIN N_pg[pg][0]) * repetition - 1 |->
                IF j \div Cardinality(DOMAIN N_pg[pg][0]) = r
                THEN N_pg[pg][0][j % Cardinality(DOMAIN N_pg[pg][0])]
                ELSE RInt(0)]]]

\* get_N_pg, lines 212-218: taille = nPe * repetition, zeros, and for each r
\* N_vect_pg[:, r, np.arange(r, taille, repetition)] = N_pg[:, 0, :]
N_vect_pg(N_pg, repetition) ==
    Only({ [pg \in DOMAIN N_pg |->
              [r \in 0 .. repetition - 1 |->
                  Only({ [j \in 0 .. taille - 1 |->
                            IF \E n \in DOMAIN cols : cols[n] = j
                            THEN N_pg[pg][0][CHOOSE n \in DOMAIN cols : cols[n] = j]
                            ELSE RInt(0)]
                         : cols \in {np_arange(r, taille, repetition)} })]]
           : taille \in {Cardinality(DOMAIN N_pg[0][0]) * repetition} })

\* get_N_pg(matriceType, repetition), lines 187-220; repetition is
\* [int, v]: the Python int v, or the float v.0
Shape_get_N_pg(n, repetition) ==
    IF dim(n) = 0 THEN ShapeNone
    ELSE IF ~repetition.int THEN ShapeRaise("AssertionError")
    ELSE IF ~(repetition.v >= 1) THEN ShapeRaise("AssertionError")
    ELSE Only({ IF N_pg.status = "error" THEN N_pg
                ELSE IF N_pg.status = "none" THEN ShapeNone
                ELSE IF repetition.v <= 1 THEN N_pg
                ELSE ShapeReturn(N_vect_pg(N_pg.val, repetition.v))
                : N_pg \in {Shape_priv_get_N_pg(n)} })

(***************************************************************************)
(* The derivative tables of get_dN_pg.  dNtild(type, c) lists, node by     *)
(* node, the dim derivatives evaluated at the row c of gauss.coord.        *)
(***************************************************************************)
\* get_dN_pg, lines 658-663
dN_SEG2(c) ==
    << <<Rat(-1, 2)>>, <<Rat(1, 2)>> >>

\* get_dN_pg, lines 665-671
dN_SEG3(c) ==
    << <<RSub(c[0], Rat(1, 2))>>,
       <<RAdd(c[0], Rat(1, 2))>>,
       <<RMul(RInt(-2), c[0])>> >>

\* get_dN_pg, lines 673-679
dN_TRI3(c) ==
    << <<RInt(-1), RInt(-1)>>,
       <<RInt(1), RInt(0)>>,
       <<RInt(0), RInt(1)>> >>

\* get_dN_pg, lines 681-690
dN_TRI6(c) ==
    << <<RSub(RAdd(RMul(RInt(4), c[0]), RMul(RInt(4), c[1])), RInt(3)),
         RSub(RAdd(RMul(RInt(4), c[0]), RMul(RInt(4), c[1])), RInt(3))>>,
       <<RSub(RMul(RInt(4), c[0]), RInt(1)), RInt(0)>>,
       <<RInt(0), RSub(RMul(RInt(4), c[1]), RInt(1))>>,
       <<RSub(RSub(RInt(4), RMul(RInt(8), c[0])), RMul(RInt(4), c[1])),
         RMul(RInt(-4), c[0])>>,
       <<RMul(RInt(4), c[1]), RMul(RInt(4), c[0])>>,
       <<RMul(RInt(-4), c[1]),
         RSub(RSub(RInt(4), RMul(RInt(4), c[0])), RMul(RInt(8), c[1]))>> >>

\* get_dN_pg, lines 692-699
dN_QUAD4(c) ==
    << <<RDiv(RSub(c[1], RInt(1)), RInt(4)),
         RDiv(RSub(c[0], RInt(1)), RInt(4))>>,
       <<RDiv(RSub(RInt(1), c[1]), RInt(4)),
         RDiv(RSub(RNeg(c[0]), RInt(1)), RInt(4))>>,
       <<RDiv(RAdd(RInt(1), c[1]), RInt(4)),
         RDiv(RAdd(RInt(1), c[0]), RInt(4))>>,
       <<RDiv(RSub(RNeg(c[1]), RInt(1)), RInt(4)),
         RDiv(RSub(RInt(1), c[0]), RInt(4))>> >>

\* get_dN_pg, lines 701-712
dN_QUAD8(c) ==
    << <<RDiv(RMul(RSub(RInt(1), c[1]),
                   RAdd(RMul(RInt(2), c[0]), c[1])), RInt(4)),
         RDiv(RMul(RSub(RInt(1), c[0]),
                   RAdd(c[0], RMul(RInt(2), c[1]))), RInt(4))>>,
       <<RDiv(RMul(RSub(RInt(1), c[1]),
                   RSub(RMul(RInt(2), c[0]), c[1])), RInt(4)),
         RDiv(RMul(RNeg(RAdd(RInt(1), c[0])),
                   RSub(c[0], RMul(RInt(2), c[1]))), RInt(4))>>,
       <<RDiv(RMul(RAdd(RInt(1), c[1]),
                   RAdd(RMul(RInt(2), c[0]), c[1])), RInt(4)),
         RDiv(RMul(RAdd(RInt(1), c[0]),
                   RAdd(c[0], RMul(RInt(2), c[1]))), RInt(4))>>,
       <<RDiv(RMul(RNeg(RAdd(RInt(1), c[1])),
                   RAdd(RMul(RInt(-2), c[0]), c[1])), RInt(4)),
         RDiv(RMul(RSub(RInt(1), c[0]),
                   RAdd(RNeg(c[0]), RMul(RInt(2), c[1]))), RInt(4))>>,
       <<RMul(RNeg(c[0]), RSub(RInt(1), c[1])),
         RDiv(RNeg(RSub(RInt(1), RMul(c[0], c[0]))), RInt(2))>>,
       <<RDiv(RSub(RInt(1), RMul(c[1], c[1])), RInt(2)),
         RMul(RNeg(c[1]), RAdd(RInt(1), c[0]))>>,
       <<RMul(RNeg(c[0]), RAdd(RInt(1), c[1])),
         RDiv(RSub(RInt(1), RMul(c[0], c[0])), RInt(2))>>,
       <<RDiv(RNeg(RSub(RInt(1), RMul(c[1], c[1]))), RInt(2)),
         RMul(RNeg(c[1]), RSub(RInt(1), c[0]))>> >>

\* get_dN_pg, lines 714-721
dN_TETRA4(c) ==
    << <<RInt(-1), RInt(-1), RInt(-1)>>,
       <<RInt(1), RInt(0), RInt(0)>>,
       <<RInt(0), RInt(1), RInt(0)>>,
       <<RInt(0), RInt(0), RInt(1)>> >>

\* s/8 * (1 + sa * c[a]) * (1 + sb * c[b])
Bilinear(c, s, a, sa, b, sb) ==
    RMul(RMul(Rat(s, 8), RAdd(RInt(1), RMul(RInt(sa), c[a]))),
         RAdd(RInt(1), RMul(RInt(sb), c[b])))

\* One row [d/dx, d/dy, d/dz] of the HEXA8 table; each triple is the sign
\* of the 1/8 and the signs of the two coordinates in its two factors.
HexaRow(c, dx, dy, dz) ==
    << Bilinear(c, dx[1], 1, dx[2], 2, dx[3]),
       Bilinear(c, dy[1], 0, dy[2], 2, dy[3]),
       Bilinear(c, dz[1], 0, dz[2], 1, dz[3]) >>

\* get_dN_pg, lines 723-734
dN_HEXA8(c) ==
    << HexaRow(c, <<-1, -1, -1>>, <<-1, -1, -1>>, <<-1, -1, -1>>),
       HexaRow(c, << 1, -1, -1>>, <<-1,  1, -1>>, <<-1,  1, -1>>),
       HexaRow(c, << 1,  1, -1>>, << 1,  1, -1>>, <<-1,  1,  1>>),
       HexaRow(c, <<-1,  1, -1>>, << 1, -1, -1>>, <<-1, -1,  1>>),
       HexaRow(c, <<-1, -1,  1>>, <<-1, -1,  1>>, << 1, -1, -1>>),
       HexaRow(c, << 1, -1,  1>>, <<-1,  1,  1>>, << 1,  1, -1>>),
       HexaRow(c, << 1,  1,  1>>, << 1,  1,  1>>, << 1,  1,  1>>),
       HexaRow(c, <<-1,  1,  1>>, << 1, -1,  1>>, << 1, -1,  1>>) >>

\* The rows dN1t .. dN6t of PRISM6, lines 738-743
PrismRows(c) ==
    << <<RMul(Rat(-1, 2), c[1]),
         RMul(Rat(1, 2), RSub(RInt(1), c[0])), RInt(0)>>,
       <<RMul(Rat(-1, 2), c[2]),
         RInt(0), RMul(Rat(1, 2), RSub(RInt(1), c[0]))>>,
       <<RMul(Rat(-1, 2), RSub(RSub(RInt(1), c[1]), c[2])),
         RMul(Rat(-1, 2), RSub(RInt(1), c[0])),
         RMul(Rat(-1, 2), RSub(RInt(1), c[0]))>>,
       <<RMul(Rat(1, 2), c[1]),
         RMul(Rat(1, 2), RAdd(RInt(1), c[0])), RInt(0)>>,
       <<RMul(Rat(1, 2), c[2]),
         RInt(0), RMul(Rat(1, 2), RAdd(RInt(1), c[0]))>>,
       <<RMul(Rat(1, 2), RSub(RSub(RInt(1), c[1]), c[2])),
         RMul(Rat(-1, 2), RAdd(RInt(1), c[0])),
         RMul(Rat(-1, 2), RAdd(RInt(1), c[0]))>> >>

\* PRISM6 in the order of the rows: [dN1t, dN2t, dN3t, dN4t, dN5t, dN6t].
dN_PRISM6_Unpermuted(c) ==
    PrismRows(c)

\* get_dN_pg, line 746: dNtild = [dN3t, dN1t, dN2t, dN6t, dN4t, dN5t]
dN_PRISM6(c) ==
    << PrismRows(c)[3], PrismRows(c)[1], PrismRows(c)[2],
       PrismRows(c)[6], PrismRows(c)[4], PrismRows(c)[5] >>

\* The if/elif chain of get_dN_pg, lines 658-750, on a type of ShapeTypes
dNtild(type, c) ==
    CASE type = "SEG2"   -> dN_SEG2(c)
      [] type = "SEG3"   -> dN_SEG3(c)
      [] type = "TRI3"   -> dN_TRI3(c)
      [] type = "TRI6"   -> dN_TRI6(c)
      [] type = "QUAD4"  -> dN_QUAD4(c)
      [] type = "QUAD8"  -> dN_QUAD8(c)
      [] type = "TETRA4" -> dN_TETRA4(c)
      [] type = "HEXA8"  -> dN_HEXA8(c)
      [] type = "PRISM6" -> dN_PRISM6(c)

\* get_dN_pg, lines 651-773: dN_pg[pg, d, n] = dNtild[n][d](coord[pg, ...])
Shape_get_dN_pg(n) ==
    IF dim(n) = 0 THEN ShapeNone
    ELSE IF ~ShapeTypes(elemType(n)) THEN ShapeRaise("TypeError")
    ELSE ShapeReturn(
           [pg \in DOMAIN n.coord |->
              Only({ [d \in 0 .. dim(n) - 1 |->
                        [k \in 0 .. Len(t) - 1 |-> t[k + 1][d + 1]]]
                     : t \in {dNtild(elemType(n), n.coord[pg])} })])

\* The coordinates of the points are the multiples of 1/(2*MaxRefine) in
\* [-1, 1]; a rule has 1 .. MaxPg points; repetition is at most MaxRep.
MaxRefine == 1
MaxPg == 2
MaxRep == 3

GridSide == 4 * MaxRefine + 1

RECURSIVE Pow(_, _)
Pow(b, e) == IF e = 0 THEN 1 ELSE b * Pow(b, e - 1)

\* The idx-th point of the grid of dimension d.
GridPoint(d, idx) ==
    [a \in 0 .. d - 1 |->
        Rat(((idx \div Pow(GridSide, a)) % GridSide) - 2 * MaxRefine,
            2 * MaxRefine)]

\* SEG2, SEG3, TRI3, TRI6, QUAD4, QUAD8, TETRA4, HEXA8, PRISM6, the POINT
\* group and QUAD9, a topology without shape functions.
ShapeIds == {1, 8, 2, 9, 3, 16, 4, 5, 6, 15, 10}

\* gauss.coord: nPg rows of dim columns, here nPg successive grid points.
ShapeInputs ==
    UNION {{[gmshId |-> g,
             coord |-> [pg \in 0 .. nPg - 1 |->
                          GridPoint(Get_ElemInFos(g).dim,
                              (start + pg) % Pow(GridSide, Get_ElemInFos(g).dim))]]
             : start \in 0 .. Pow(GridSide, Get_ElemInFos(g).dim) - 1,
               nPg \in 1 .. MaxPg}
           : g \in ShapeIds}

Repetitions ==
    {[int |-> TRUE, v |-> k] : k \in -1 .. MaxRep} \cup {[int |-> FALSE, v |-> 2]}

InitN ==
    /\ nIn \in ShapeInputs
    /\ nOut = [op |-> "init", repetition |-> <<>>, status |-> "", err |-> "",
               val |-> <<>>]
    /\ GroupIdle /\ ConnIdle /\ BIdle /\ MeshIdle
    /\ MapIdle /\ PointIdle
    /\ RenumIdle /\ SelIdle /\ TicIdle /\ GeomIdle

\* The one call the caller makes on the group.
ShapeAnswer(op, rep, r) ==
    /\ nOut.op = "init"
    /\ nOut' = [op |-> op, repetition |-> rep, status |-> r.status,
                err |-> r.err, val |-> r.val]
    /\ UNCHANGED <<grp, cache, ever, ret, held, conn, res, bIn, bOut, mIn, mSt,
                   nIn, fIn, fOut, pts,
                 gIn, gOut, sIn, sOut, tic, geo>>

Call_Shape_priv_get_N_pg ==
    ShapeAnswer("__get_N_pg", <<>>, Shape_priv_get_N_pg(nIn))

Call_Shape_get_N_pg ==
    \E rep \in Repetitions :
        ShapeAnswer("get_N_pg", rep, Shape_get_N_pg(nIn, rep))

Call_Shape_get_dN_pg ==
    ShapeAnswer("get_dN_pg", <<>>, Shape_get_dN_pg(nIn))

NextN ==
    \/ Call_Shape_priv_get_N_pg
    \/ Call_Shape_get_N_pg
    \/ Call_Shape_get_dN_pg

SpecN == InitN /\ [][NextN]_vars

(***************************************************************************)
(* Claims on SpecN.                                                        *)
(***************************************************************************)
\* The scalar matrix of the group of SpecN.
ScalarN == Shape_priv_get_N_pg(nIn).val

HasShapeFunctions == dim(nIn) >= 1 /\ ShapeTypes(elemType(nIn))

\* C12: for a group with shape functions, get_N_pg(key, r) with an integer
\* r >= 2 has shape (nPg, r, nPe*r), its entry [p][k][n*r + k] is
\* N_pg[p][0][n] for every point p, component k < r and node n, and every
\* other entry is zero; with r = 1 it is the scalar matrix (nPg, 1, nPe); a
\* repetition that is not an integer >= 1 is refused with an
\* AssertionError.
C12_InterleavedExpansion ==
    (nOut.op = "get_N_pg" /\ HasShapeFunctions)
    => IF ~nOut.repetition.int \/ nOut.repetition.v < 1
       THEN nOut.status = "error" /\ nOut.err = "AssertionError"
       ELSE IF nOut.repetition.v = 1
       THEN /\ nOut.status = "return" /\ nOut.val = ScalarN
            /\ DOMAIN nOut.val = DOMAIN nIn.coord
            /\ \A p \in DOMAIN nOut.val :
                 /\ DOMAIN nOut.val[p] = {0}
                 /\ DOMAIN nOut.val[p][0] = 0 .. nPe(nIn) - 1
       ELSE /\ nOut.status = "return"
            /\ DOMAIN nOut.val = DOMAIN nIn.coord
            /\ \A N_pg \in {ScalarN} : \A p \in DOMAIN nOut.val :
                 /\ DOMAIN nOut.val[p] = 0 .. nOut.repetition.v - 1
                 /\ \A k \in DOMAIN nOut.val[p] :
                      /\ DOMAIN nOut.val[p][k]
                            = 0 .. nPe(nIn) * nOut.repetition.v - 1
                      /\ \A j \in DOMAIN nOut.val[p][k] :
                           nOut.val[p][k][j]
                             = IF j % nOut.repetition.v = k
                               THEN N_pg[p][0][j \div nOut.repetition.v]
                               ELSE RInt(0)

\* C12 witness: a TRI3 group, two quadrature points, repetition 2: at a
\* point where N_1 = 1/2 the value sits at [p][0][2] and [p][1][3].
C12_Witness ==
    /\ nOut.op = "get_N_pg" /\ elemType(nIn) = "TRI3"
    /\ nOut.repetition = [int |-> TRUE, v |-> 2]
    /\ DOMAIN nIn.coord = 0 .. 1
    /\ nIn.coord[1][0] = Rat(1, 2)
    /\ nOut.val[1][0][2] = Rat(1, 2) /\ nOut.val[1][1][3] = Rat(1, 2)
    /\ nOut.val[1][0][3] = RInt(0)

\* C13: for every topology with shape functions and every evaluation
\* point, the shape functions of __get_N_pg sum to 1.
C13_PartitionOfUnity ==
    (nOut.op = "__get_N_pg" /\ nOut.status = "return")
    => \A p \in DOMAIN nOut.val :
         RSum(nOut.val[p][0], nPe(nIn)) = RInt(1)

\* C13 witness: a QUAD8 group evaluated at (1/2, 1/2), where the corner
\* function N_1 is negative.
C13_Witness ==
    /\ nOut.op = "__get_N_pg" /\ elemType(nIn) = "QUAD8"
    /\ nIn.coord[0] = Arr0(<<Rat(1, 2), Rat(1, 2)>>)
    /\ nOut.val[0][0][0].n < 0

\* The reference coordinates of the nodes of each topology, in the mesher's
\* node order (for PRISM6 with x along the axis of the prism).
RefNodes(type) ==
    CASE type = "SEG2"   -> << <<-2>>, <<2>> >>
      [] type = "SEG3"   -> << <<-2>>, <<2>>, <<0>> >>
      [] type = "TRI3"   -> << <<0, 0>>, <<2, 0>>, <<0, 2>> >>
      [] type = "TRI6"   -> << <<0, 0>>, <<2, 0>>, <<0, 2>>,
                               <<1, 0>>, <<1, 1>>, <<0, 1>> >>
      [] type = "QUAD4"  -> << <<-2, -2>>, <<2, -2>>, <<2, 2>>, <<-2, 2>> >>
      [] type = "QUAD8"  -> << <<-2, -2>>, <<2, -2>>, <<2, 2>>, <<-2, 2>>,
                               <<0, -2>>, <<2, 0>>, <<0, 2>>, <<-2, 0>> >>
      [] type = "TETRA4" -> << <<0, 0, 0>>, <<2, 0, 0>>, <<0, 2, 0>>,
                               <<0, 0, 2>> >>
      [] type = "HEXA8"  -> << <<-2, -2, -2>>, <<2, -2, -2>>, <<2, 2, -2>>,
                               <<-2, 2, -2>>, <<-2, -2, 2>>, <<2, -2, 2>>,
                               <<2, 2, 2>>, <<-2, 2, 2>> >>
      [] type = "PRISM6" -> << <<-2, 0, 0>>, <<-2, 2, 0>>, <<-2, 0, 2>>,
                               <<2, 0, 0>>, <<2, 2, 0>>, <<2, 0, 2>> >>

\* Node j (from 0) of the reference element; RefNodes lists its coordinates
\* in halves.
RefNode(type, j) ==
    [a \in 0 .. Len(RefNodes(type)[j + 1]) - 1 |->
        Rat(RefNodes(type)[j + 1][a + 1], 2)]

\* C14: N_i, in the order of Ntild, evaluated at the reference coordinates
\* of reference node j is 1 if i = j and 0 otherwise.
C14_KroneckerDelta ==
    (nOut.op = "__get_N_pg" /\ nOut.status = "return")
    => \A p \in DOMAIN nOut.val : \A j \in 0 .. nPe(nIn) - 1 :
         nIn.coord[p] = RefNode(elemType(nIn), j)
         => \A i \in 0 .. nPe(nIn) - 1 :
              nOut.val[p][0][i] = IF i = j THEN RInt(1) ELSE RInt(0)

\* C14 witness: a PRISM6 group evaluated at its reference node 1,
\* (-1, 1, 0), where the second function of Ntild is 1.
C14_Witness ==
    /\ nOut.op = "__get_N_pg" /\ elemType(nIn) = "PRISM6"
    /\ nIn.coord[0] = RefNode("PRISM6", 1)
    /\ nOut.val[0][0][1] = RInt(1)

\* The row c with h added to its coordinate d.
Shifted1(c, d, h) == [c EXCEPT ![d] = RAdd(c[d], h)]

\* The central differences of step 1 of the entries of the shape-function
\* table along the coordinate d at c.  Every entry of the tables is a
\* product of factors of degree 1 of which at most two hold a given
\* coordinate, so of degree at most 2 in it, and the central difference of
\* such a function is its derivative.
CentralDifference(type, c, d) ==
    Only({ [k \in DOMAIN plus |-> RDiv(RSub(plus[k], minus[k]), RInt(2))]
           : <<plus, minus>> \in {<<Ntild(type, Shifted1(c, d, RInt(1))),
                                     Ntild(type, Shifted1(c, d, RInt(-1)))>>} })

PrismPermutation == <<3, 1, 2, 6, 4, 5>>

\* C23: for every topology with shape functions, __get_N_pg and get_dN_pg
\* both list nPe entries (nPe of Get_ElemInFos), the derivative table has
\* dim components per node, entry n of the derivative table is the
\* derivative of entry n of the shape-function table, and for PRISM6 both
\* tables list the functions N1t..N6t in the order [3, 1, 2, 6, 4, 5].
C23_TablesConsistent ==
    /\ (nOut.op = "__get_N_pg" /\ HasShapeFunctions)
       => /\ nOut.status = "return"
          /\ \A p \in DOMAIN nOut.val :
               /\ DOMAIN nOut.val[p][0] = 0 .. Get_ElemInFos(nIn.gmshId).nPe - 1
               /\ elemType(nIn) = "PRISM6"
                  => \A k \in 0 .. 5 :
                       nOut.val[p][0][k]
                         = PrismLambdas(nIn.coord[p])[PrismPermutation[k + 1]]
    /\ (nOut.op = "get_dN_pg" /\ HasShapeFunctions)
       => /\ nOut.status = "return"
          /\ DOMAIN nOut.val = DOMAIN nIn.coord
          /\ \A p \in DOMAIN nOut.val :
               /\ DOMAIN nOut.val[p] = 0 .. Get_ElemInFos(nIn.gmshId).dim - 1
               /\ \A d \in DOMAIN nOut.val[p] :
                    /\ DOMAIN nOut.val[p][d]
                         = 0 .. Get_ElemInFos(nIn.gmshId).nPe - 1
                    /\ nOut.val[p][d]
                         = CentralDifference(elemType(nIn), nIn.coord[p], d)
               /\ elemType(nIn) = "PRISM6"
                  => \A k \in 0 .. 5 : \A d \in 0 .. 2 :
                       nOut.val[p][d][k]
                         = PrismRows(nIn.coord[p])[PrismPermutation[k + 1]][d + 1]

\* C23 witness: the derivatives of a PRISM6 group at (1/2, 1/2, 0): entry 1
\* of the table is the row dN1t, (-y/2, (1-x)/2, 0).
C23_Witness ==
    /\ nOut.op = "get_dN_pg" /\ elemType(nIn) = "PRISM6"
    /\ nIn.coord[0] = Arr0(<<Rat(1, 2), Rat(1, 2), RInt(0)>>)
    /\ nOut.val[0][0][1] = Rat(-1, 4)
    /\ nOut.val[0][1][1] = Rat(1, 4)
    /\ nOut.val[0][2][1] = RInt(0)

(***************************************************************************)
(* Norms.  np.linalg.norm of a vector of integers is the square root of an *)
(* integer: a float is modelled here by q * sqrt(m), q a rational and m a  *)
(* square-free positive integer (m = 1 for a rational).  The sums of the   *)
(* program add values of one and the same m.                               *)
(***************************************************************************)
Surd(q, m) == [q |-> q, m |-> IF q.n = 0 THEN 1 ELSE m]
SRat(q) == Surd(q, 1)
SInt(k) == SRat(RInt(k))
SFinite(a) == a.q.d # 0

\* The largest t whose square divides n > 0.
SquarePart(n) ==
    CHOOSE t \in 1 .. n :
        n % (t * t) = 0 /\ \A u \in t + 1 .. n : n % (u * u) # 0

\* np.sqrt of an integer n >= 0
np_sqrt(n) ==
    IF n = 0 THEN SInt(0)
    ELSE Only({ Surd(RInt(t), n \div (t * t)) : t \in {SquarePart(n)} })

SMul(a, b) ==
    IF ~SFinite(a) \/ ~SFinite(b) THEN SRat(NonFinite)
    ELSE Only({ Surd(RMul(RMul(a.q, b.q), RInt(g)), (a.m \div g) * (b.m \div g))
           : g \in {Gcd(a.m, b.m)} })

\* 1 / a; 1 / 0 is inf
SInv(a) == Surd(RDiv(RInt(1), RMul(a.q, RInt(a.m))), a.m)

SNeg(a) == Surd(RNeg(a.q), a.m)

\* a + b; the sum of two values of different m is outside the model (m = 0).
SAdd(a, b) ==
    IF ~SFinite(a) \/ ~SFinite(b) THEN SRat(NonFinite)
    ELSE IF a.q.n = 0 THEN b
    ELSE IF b.q.n = 0 THEN a
    ELSE IF a.m = b.m THEN Surd(RAdd(a.q, b.q), a.m)
    ELSE [q |-> NonFinite, m |-> 0]

SSub(a, b) == SAdd(a, SNeg(b))

\* The sum f[1] + ... + f[n] of an einsum.
RECURSIVE SSum(_, _)
SSum(f, n) == IF n = 0 THEN SInt(0) ELSE SAdd(SSum(f, n - 1), f[n])

(***************************************************************************)
(* SpecF: the geometric mapping of one element with constant derivatives  *)
(* (SEG2, TRI3, TETRA4), its nodes anywhere in 3-space.  e is             *)
(* [gmshId, coordo, others]: the topology, the rows of coordoGlob of the  *)
(* element's nodes in the order of connect, and the rows of coordoGlob    *)
(* that connect does not name for this element (nodes of other elements   *)
(* and other groups of the mesh).  Matrices are indexed from 1.           *)
(***************************************************************************)
\* get_dN_pg, lines 659-663, 673-679, 714-721: dN_pg[pg, d, n] at any pg
Map_dN_pg(e) ==
    [d \in 1 .. dim(e) |->
        [n \in 1 .. nPe(e) |-> SRat(Rat(TwodN_pg(elemType(e))[d][n], 2))]]

\* np.linalg.norm(v) of one row
np_linalg_norm(v) == np_sqrt(v[1] * v[1] + v[2] * v[2] + v[3] * v[3])

\* einsum('ei,e->ei', v, 1/np.linalg.norm(v, axis=1)) at one e
Normalise(v) ==
    Only({ [c \in 1 .. 3 |-> SMul(SInt(v[c]), inv)]
           : inv \in {SInv(np_linalg_norm(v))} })

\* np.cross(i, j, axis=1) at one e
np_cross(i, j) ==
    << SSub(SMul(i[2], j[3]), SMul(i[3], j[2])),
       SSub(SMul(i[3], j[1]), SMul(i[1], j[3])),
       SSub(SMul(i[1], j[2]), SMul(i[2], j[1])) >>

\* __get_sysCoord_sysCoordLocal, lines 416-436: the rows i, j, k from the
\* normalised i; rot is the rotation of pi/2 about the third axis (its
\* cos(pi/2) taken as 0), j = rot i in dimension 1, the normalised
\* points3 - points1 in dimension 2
Frame(e, i) ==
    Only({ << i, j, np_cross(i, j) >>
           : j \in {IF dim(e) = 1
                    THEN << SNeg(i[2]), i[1], i[3] >>
                    ELSE Normalise([c \in 1 .. 3 |->
                                      e.coordo[3][c] - e.coordo[1][c]])} })

Eye3 ==
    [r \in 1 .. 3 |-> [c \in 1 .. 3 |-> IF r = c THEN SInt(1) ELSE SInt(0)]]

\* __get_sysCoord_sysCoordLocal, lines 384-444: sysCoord_e at one e
Map_sysCoord_e(e) ==
    IF dim(e) \in {0, 3} THEN Eye3
    ELSE Frame(e, Normalise([c \in 1 .. 3 |->
                               e.coordo[2][c] - e.coordo[1][c]]))

\* sysCoordLocal_e = sysCoord_e[:, range(self.dim)]
Map_sysCoordLocal_e(e) == SubSeq(Map_sysCoord_e(e), 1, dim(e))

\* get_F_e_pg, lines 452, 456: nodes_n = self.__coordoGlob[:], every row of
\* the mesh's coordinates; self.dim in [1,2] and
\* nodes_n[:,self.dim].max() != 0
Map_projects(e) ==
    /\ dim(e) \in {1, 2}
    /\ SetMax({e.coordo[n][dim(e) + 1] : n \in 1 .. nPe(e)}
              \cup {e.others[n][dim(e) + 1] : n \in DOMAIN e.others}) # 0

\* get_F_e_pg, lines 453-460: nodes_e, projected or not, cut to dim columns
Map_nodes_e(e) ==
    IF Map_projects(e)
    THEN Only({ [n \in 1 .. nPe(e) |->
                   [k \in 1 .. dim(e) |->
                       SSum([j \in 1 .. 3 |->
                                SMul(SInt(e.coordo[n][j]), syscoord[k][j])], 3)]]
                : syscoord \in {Map_sysCoordLocal_e(e)} })
    ELSE [n \in 1 .. nPe(e) |-> [k \in 1 .. dim(e) |-> SInt(e.coordo[n][k])]]

\* get_F_e_pg, lines 446-468, at one (e, pg):
\* einsum('pik,ekj->epij', dN_pg, nodes_e)
Map_get_F_e_pg(e) ==
    Only({ [i \in 1 .. dim(e) |->
              [j \in 1 .. dim(e) |->
                  SSum([k \in 1 .. nPe(e) |->
                           SMul(dN_pg[i][k], nodes[k][j])], nPe(e))]]
           : <<dN_pg, nodes>> \in {<<Map_dN_pg(e), Map_nodes_e(e)>>} })

\* np.linalg.det of a 1x1, 2x2 or 3x3 matrix
np_linalg_det(A) ==
    CASE Len(A) = 1 -> A[1][1]
      [] Len(A) = 2 -> SSub(SMul(A[1][1], A[2][2]), SMul(A[1][2], A[2][1]))
      [] Len(A) = 3 ->
            SAdd(SSub(SMul(A[1][1], SSub(SMul(A[2][2], A[3][3]),
                                         SMul(A[2][3], A[3][2]))),
                      SMul(A[1][2], SSub(SMul(A[2][1], A[3][3]),
                                         SMul(A[2][3], A[3][1])))),
                 SMul(A[1][3], SSub(SMul(A[2][1], A[3][2]),
                                    SMul(A[2][2], A[3][1]))))

\* get_jacobien_e_pg, lines 470-482, at one (e, pg)
Map_get_jacobien_e_pg(e) == np_linalg_det(Map_get_F_e_pg(e))

\* The entry (r, c) of the adjugate of a 3x3 matrix: the cofactor (c, r).
Adj3(A, r, c) ==
    Only({ SSub(SMul(A[rows[1]][cols[1]], A[rows[2]][cols[2]]),
                SMul(A[rows[1]][cols[2]], A[rows[2]][cols[1]]))
           : <<rows, cols>> \in
               {<< << (c % 3) + 1, ((c + 1) % 3) + 1 >>,
                   << (r % 3) + 1, ((r + 1) % 3) + 1 >> >>} })

\* np.linalg.inv of a 3x3 matrix that is not singular
np_linalg_inv(A) ==
    Only({ [r \in 1 .. 3 |-> [c \in 1 .. 3 |-> SMul(Adj3(A, r, c), inv)]]
           : inv \in {SInv(np_linalg_det(A))} })

\* The 2x2 inverse with the off-diagonal terms exchanged and the diagonal
\* kept in place.
Inv2_Transposed(F, det) ==
    Only({ << << SMul(inv, F[1][1]), SMul(inv, SNeg(F[2][1])) >>,
              << SMul(inv, SNeg(F[1][2])), SMul(inv, F[2][2]) >> >>
           : inv \in {SInv(det)} })

\* get_invF_e_pg, lines 497-514: [[b, -beta], [-a, alpha]] times 1/det
Inv2(F, det) ==
    Only({ << << SMul(inv, F[2][2]), SMul(inv, SNeg(F[1][2])) >>,
              << SMul(inv, SNeg(F[2][1])), SMul(inv, F[1][1]) >> >>
           : inv \in {SInv(det)} })

MapReturn(v) == [status |-> "return", err |-> "", val |-> v]
MapRaise(x) == [status |-> "error", err |-> x, val |-> <<>>]

\* get_invF_e_pg, lines 484-520, at one (e, pg)
Map_get_invF_e_pg(e) ==
    Only({ IF dim(e) = 1 THEN MapReturn(<< << SInv(F[1][1]) >> >>)
           ELSE IF dim(e) = 2 THEN MapReturn(Inv2(F, Map_get_jacobien_e_pg(e)))
           ELSE IF np_linalg_det(F).q.n = 0 THEN MapRaise("LinAlgError")
           ELSE MapReturn(np_linalg_inv(F))
           : F \in {Map_get_F_e_pg(e)} })

\* dN_e_pg contracted over the other index of invF_e_pg.
Map_get_dN_e_pg_Transposed(e) ==
    Only({ IF invF.status = "error" THEN invF
           ELSE MapReturn([i \in 1 .. dim(e) |->
                    [j \in 1 .. nPe(e) |->
                        SSum([k \in 1 .. dim(e) |->
                                 SMul(invF.val[k][i], dN_pg[k][j])], dim(e))]])
           : <<invF, dN_pg>> \in {<<Map_get_invF_e_pg(e), Map_dN_pg(e)>>} })

\* get_dN_e_pg, lines 222-239, at one (e, pg):
\* einsum('epik,pkj->epij', invF_e_pg, dN_pg)
Map_get_dN_e_pg(e) ==
    Only({ IF invF.status = "error" THEN invF
           ELSE MapReturn([i \in 1 .. dim(e) |->
                    [j \in 1 .. nPe(e) |->
                        SSum([k \in 1 .. dim(e) |->
                                 SMul(invF.val[i][k], dN_pg[k][j])], dim(e))]])
           : <<invF, dN_pg>> \in {<<Map_get_invF_e_pg(e), Map_dN_pg(e)>>} })

\* get_B_dep_e_pg, lines 241-296, at one (e, pg).  The operator is built by
\* copying entries of dN_e_pg: it is built here from the positions
\* d * nPe + n + 1 of the entries, and each position is then replaced by the
\* entry it names (0 names no entry: the zero of np.zeros).  In dimension 1
\* the branch of line 275 reads dN_e_pg[:,:,1,:], which does not exist.
Map_get_B_dep_e_pg(e) ==
    Only({ IF dN.status = "error" THEN dN
           ELSE IF dim(e) = 1 THEN MapRaise("IndexError")
           ELSE MapReturn(
                  [i \in DOMAIN B |->
                      [j \in DOMAIN B[i] |->
                          [v |-> IF B[i][j].v = 0 THEN SInt(0)
                                 ELSE dN.val[((B[i][j].v - 1) \div nPe(e)) + 1]
                                            [((B[i][j].v - 1) % nPe(e)) + 1],
                           km |-> B[i][j].km]]])
           : <<dN, B>> \in
               {<< Map_get_dN_e_pg(e),
                   GroupElem_get_B_dep_e_pg(
                       [dim |-> IF dim(e) = 2 THEN 2 ELSE 3, nPe |-> nPe(e),
                        dN |-> [d \in 0 .. 2 |-> [n \in 0 .. nPe(e) - 1 |->
                                   d * nPe(e) + n + 1]]]) >>} })

\* The coordinates of the nodes are integers of absolute value at most
\* MaxX.
MaxX == 1

\* The rows of the mesh's coordinates that the element does not use: none,
\* or one node below, on or above the element's own axes.
OtherRows == {<<>>} \cup {<< <<0, h, h>> >> : h \in -1 .. 1}

\* The first node sits on the axis next to the element's own, at height w;
\* the other nodes: SEG2 anywhere; TRI3 with x, y >= 0, its second node
\* above or below the x axis, or with its first edge along the y axis;
\* TETRA4 in the positive octant, its second node on the x axis.  The mesh
\* of a SEG2 or TRI3 holds any of OtherRows; for a TETRA4 no line of the
\* mapping reads another row.
MapInputs ==
    {[gmshId |-> 1, coordo |-> << <<0, w, 0>>, <<x, y, z>> >>, others |-> o]
        : w \in -MaxX .. MaxX, x \in -MaxX .. MaxX, y \in -MaxX .. MaxX,
          z \in -MaxX .. MaxX, o \in OtherRows}
    \cup
    {[gmshId |-> 2,
      coordo |-> << <<0, 0, w>>, <<p[1], 0, p[2]>>, <<q[1], q[2], q[3]>> >>,
      others |-> o]
        : w \in -MaxX .. MaxX,
          p \in (0 .. MaxX) \X (-MaxX .. MaxX),
          q \in (0 .. MaxX) \X (0 .. MaxX) \X (-MaxX .. MaxX),
          o \in OtherRows}
    \cup
    {[gmshId |-> 2,
      coordo |-> << ZeroPoint, <<0, 1, 0>>, <<x, 0, z>> >>,
      others |-> o]
        : x \in -MaxX .. MaxX, z \in -MaxX .. MaxX, o \in OtherRows}
    \cup
    {[gmshId |-> 4,
      others |-> <<>>,
      coordo |-> << ZeroPoint, <<p, 0, 0>>, <<q[1], q[2], q[3]>>,
                    <<r[1], r[2], r[3]>> >>]
        : p \in 0 .. MaxX,
          q \in (0 .. MaxX) \X (0 .. MaxX) \X (0 .. MaxX),
          r \in (0 .. MaxX) \X (0 .. MaxX) \X (0 .. MaxX)}

InitF ==
    /\ fIn \in MapInputs
    /\ fOut = [op |-> "init", status |-> "", err |-> "", val |-> <<>>,
               projected |-> FALSE]
    /\ GroupIdle /\ ConnIdle /\ BIdle /\ MeshIdle
    /\ ShapeIdle /\ PointIdle
    /\ RenumIdle /\ SelIdle /\ TicIdle /\ GeomIdle

\* The one call the caller makes on the group; projected tells whether the
\* call went through the projection of line 458.
MapAnswer(op, r, projected) ==
    /\ fOut.op = "init"
    /\ fOut' = [op |-> op, status |-> r.status, err |-> r.err, val |-> r.val,
                projected |-> projected]
    /\ UNCHANGED <<grp, cache, ever, ret, held, conn, res, bIn, bOut, mIn, mSt,
                   nIn, nOut, fIn, pts,
                 gIn, gOut, sIn, sOut, tic, geo>>

Call_Map_sysCoord_e ==
    MapAnswer("sysCoord_e", MapReturn(Map_sysCoord_e(fIn)), FALSE)

Call_Map_get_F_e_pg ==
    MapAnswer("get_F_e_pg", MapReturn(Map_get_F_e_pg(fIn)), Map_projects(fIn))

Call_Map_get_jacobien_e_pg ==
    MapAnswer("get_jacobien_e_pg", MapReturn(Map_get_jacobien_e_pg(fIn)),
              Map_projects(fIn))

Call_Map_get_invF_e_pg ==
    MapAnswer("get_invF_e_pg", Map_get_invF_e_pg(fIn), Map_projects(fIn))

Call_Map_get_dN_e_pg ==
    MapAnswer("get_dN_e_pg", Map_get_dN_e_pg(fIn), Map_projects(fIn))

Call_Map_get_B_dep_e_pg ==
    MapAnswer("get_B_dep_e_pg", Map_get_B_dep_e_pg(fIn), Map_projects(fIn))

NextF ==
    \/ Call_Map_sysCoord_e
    \/ Call_Map_get_F_e_pg
    \/ Call_Map_get_jacobien_e_pg
    \/ Call_Map_get_invF_e_pg
    \/ Call_Map_get_dN_e_pg
    \/ Call_Map_get_B_dep_e_pg

SpecF == InitF /\ [][NextF]_vars

(***************************************************************************)
(* Claims on SpecF.                                                        *)
(***************************************************************************)
\* The product of two square matrices of the same size.
MatMul(A, B) ==
    [i \in DOMAIN A |->
        [j \in DOMAIN A |->
            SSum([k \in DOMAIN A |-> SMul(A[i][k], B[k][j])], Len(A))]]

Identity(n) ==
    [i \in 1 .. n |-> [j \in 1 .. n |-> IF i = j THEN SInt(1) ELSE SInt(0)]]

NonZero(a) == SFinite(a) /\ a.q.n # 0

\* C15: for an element whose determinant is not zero, the matrix returned
\* by get_invF_e_pg times the matrix returned by get_F_e_pg is the
\* identity, in dimension 1 (reciprocal), 2 (adjugate over determinant) and
\* 3 (general inverse).
C15_InverseConsistency ==
    (fOut.op = "get_invF_e_pg" /\ NonZero(Map_get_jacobien_e_pg(fIn)))
    => /\ fOut.status = "return"
       /\ MatMul(fOut.val, Map_get_F_e_pg(fIn)) = Identity(dim(fIn))

\* C15 witness: a triangle out of the plane z = 0, whose F goes through the
\* local frame, with an inverse that has a non-zero off-diagonal term.
C15_Witness ==
    /\ fOut.op = "get_invF_e_pg" /\ dim(fIn) = 2 /\ fOut.projected
    /\ NonZero(Map_get_jacobien_e_pg(fIn))
    /\ NonZero(fOut.val[1][2])

\* The displacement of the field u_x = c x, u_y = 0 at the element's nodes,
\* in the order of the columns of the operator (from 0).
LinearField(e, c) ==
    [j \in 0 .. 2 * nPe(e) - 1 |->
        IF j % 2 = 0 THEN SInt(c * e.coordo[(j \div 2) + 1][1]) ELSE SInt(0)]

\* Row i of the operator B contracted with the displacement u, the
\* Kelvin-Mandel coefficient left aside.
Contract(B, i, u) ==
    SSum([k \in 1 .. Cardinality(DOMAIN u) |-> SMul(B[i][k - 1].v, u[k - 1])],
         Cardinality(DOMAIN u))

\* The mesh lies in the plane z = 0: the element's nodes and every other
\* row of the coordinates (a mesh of one element has no other row).
InPlane(e) ==
    /\ \A n \in 1 .. nPe(e) : e.coordo[n][3] = 0
    /\ \A n \in DOMAIN e.others : e.others[n][3] = 0

\* The strains of C16 are c = 1 .. MaxStrain.
MaxStrain == 2

\* C16: for one TRI3 element of a mesh in the plane z = 0 that is not
\* degenerate and the nodal displacements of the field u_x = c x, u_y = 0,
\* the operator of
\* get_B_dep_e_pg contracted with the displacements gives [c, 0, 0]: row 0
\* gives c and carries no coefficient, rows 1 and 2 give 0.
C16_ConstantStrain ==
    (/\ fOut.op = "get_B_dep_e_pg" /\ elemType(fIn) = "TRI3" /\ InPlane(fIn)
     /\ NonZero(Map_get_jacobien_e_pg(fIn)))
    => /\ fOut.status = "return"
       /\ \A j \in DOMAIN fOut.val[0] :
            ~fOut.val[0][j].km /\ ~fOut.val[1][j].km
       /\ \A c \in 1 .. MaxStrain :
            /\ Contract(fOut.val, 0, LinearField(fIn, c)) = SInt(c)
            /\ Contract(fOut.val, 1, LinearField(fIn, c)) = SInt(0)
            /\ Contract(fOut.val, 2, LinearField(fIn, c)) = SInt(0)

\* C16 witness: the triangle (0,0,0), (1,0,0), (1,1,0), where dN_2/dx = 1,
\* dN_2/dy = -1 and the shear row has two terms that cancel.
C16_Witness ==
    /\ fOut.op = "get_B_dep_e_pg"
    /\ fIn = [gmshId |-> 2,
              coordo |-> << <<0, 0, 0>>, <<1, 0, 0>>, <<1, 1, 0>> >>,
              others |-> <<>>]
    /\ fOut.val[0][2].v = SInt(1)
    /\ fOut.val[2][2].v = SInt(-1)
    /\ fOut.val[2][2].km

\* Some node of the element has a non-zero coordinate outside the first dim
\* axes.
OutOfPlane(e) ==
    \E n \in 1 .. nPe(e) : \E c \in dim(e) + 1 .. 3 : e.coordo[n][c] # 0

\* C18: for a group of dimension 1 or 2, get_F_e_pg projects the nodes into
\* the local frame exactly when some node has a non-zero coordinate outside
\* the element's own first dim axes, of either sign and on any remaining
\* axis.
C18_ProjectsWhenOutOfPlane ==
    (fOut.op = "get_F_e_pg" /\ dim(fIn) \in {1, 2})
    => (fOut.projected <=> OutOfPlane(fIn))

SDot(a, b) == SSum([c \in 1 .. 3 |-> SMul(a[c], b[c])], 3)

\* The nodes of a segment are distinct; the first three corner nodes of a
\* triangle are not aligned.
NonDegenerate(e) ==
    IF dim(e) = 1 THEN e.coordo[1] # e.coordo[2]
    ELSE \E a, b \in 1 .. 3 :
            (e.coordo[2][a] - e.coordo[1][a]) * (e.coordo[3][b] - e.coordo[1][b])
          # (e.coordo[2][b] - e.coordo[1][b]) * (e.coordo[3][a] - e.coordo[1][a])

\* C19: the frame sysCoord_e of an element of dimension 1 or 2 that is not
\* degenerate is orthonormal: its rows i, j, k are unit vectors and
\* i.j = i.k = j.k = 0, whatever the angle between the edges and the
\* orientation of the element.
C19_FrameOrthonormal ==
    (fOut.op = "sysCoord_e" /\ dim(fIn) \in {1, 2} /\ NonDegenerate(fIn))
    => /\ \A r \in 1 .. 3 : SDot(fOut.val[r], fOut.val[r]) = SInt(1)
       /\ SDot(fOut.val[1], fOut.val[2]) = SInt(0)
       /\ SDot(fOut.val[1], fOut.val[3]) = SInt(0)
       /\ SDot(fOut.val[2], fOut.val[3]) = SInt(0)

(***************************************************************************)
(* SpecPoint: one Point of modules/Geom.py and the operations a caller     *)
(* makes on it.  pts is [p, before, op, ret]: the Point, the Point as it   *)
(* was before the last operation, the name of that operation and what it   *)
(* returned.  A Point is [id, coordo, isOpen, r]; id tells the objects     *)
(* apart: 0 is the Point under study, 1 one built by the last operation.   *)
(* Coordinates are rationals, indexed from 1.                              *)
(***************************************************************************)
\* The coordinates of the Point under study are integers of absolute value
\* at most MaxP, and so are the arguments of the operations.
MaxP == 1

Vec(x, y, z) == << RInt(x), RInt(y), RInt(z) >>

\* Point.__init__, lines 14-32, giving the object of identity id
NewPoint(id, coordo, isOpen, r) ==
    [id |-> id, coordo |-> coordo, isOpen |-> isOpen, r |-> r]

PointNone == [kind |-> "None", err |-> "", point |-> <<>>]
PointRaise(x) == [kind |-> "error", err |-> x, point |-> <<>>]
PointObject(q) == [kind |-> "Point", err |-> "", point |-> q]

\* Point._getCoord, lines 77-91.  value is [kind, v]: a Point (v its
\* coordinates), a list or tuple (v a sequence of numbers), a number, or
\* anything else.
getCoord(value) ==
    CASE value.kind = "Point" -> [err |-> "", coordo |-> value.v]
      [] value.kind = "list" ->
            IF Len(value.v) <= 3
            THEN [err |-> "",
                  coordo |-> [c \in 1 .. 3 |->
                                IF c <= Len(value.v) THEN RInt(value.v[c])
                                ELSE RInt(0)]]
            ELSE [err |-> "AssertionError", coordo |-> <<>>]
      [] value.kind = "number" ->
            [err |-> "", coordo |-> Vec(value.v, value.v, value.v)]
      [] OTHER -> [err |-> "Exception", coordo |-> <<>>]

\* Translate_coordo, lines 903-912
Translate_coordo(coordo, dx, dy, dz) ==
    [c \in 1 .. 3 |-> RAdd(coordo[c], getCoord([kind |-> "list",
                                                v |-> <<dx, dy, dz>>]).coordo[c])]

\* cos and sin of theta = turns * pi/2
QuarterCos(turns) == CASE turns % 4 = 0 -> 1 [] turns % 4 = 2 -> -1 [] OTHER -> 0
QuarterSin(turns) == CASE turns % 4 = 1 -> 1 [] turns % 4 = 3 -> -1 [] OTHER -> 0

\* rotation_matrix, lines 866-880, for a unit vector vect = (x, y, z)
rotation_matrix(vect, turns) ==
    Only({ << << vect[1] * vect[1] * C + c, vect[1] * vect[2] * C - vect[3] * s,
                 vect[1] * vect[3] * C + vect[2] * s >>,
              << vect[2] * vect[1] * C + vect[3] * s, vect[2] * vect[2] * C + c,
                 vect[2] * vect[3] * C - vect[1] * s >>,
              << vect[3] * vect[1] * C - vect[2] * s,
                 vect[3] * vect[2] * C + vect[1] * s, vect[3] * vect[3] * C + c >> >>
           : <<c, s, C>> \in {<<QuarterCos(turns), QuarterSin(turns),
                                1 - QuarterCos(turns)>>} })

\* Rotate_coordo, lines 914-944:
\* einsum('ij,nj->ni', rotMat, oldCoordo - center) + center
Rotate_coordo(coordo, turns, center, direction) ==
    Only({ [i \in 1 .. 3 |->
              RAdd(RSum([j \in 0 .. 2 |->
                            RMul(RInt(rotMat[i][j + 1]),
                                 RSub(coordo[j + 1], RInt(center[j + 1])))], 3),
                   RInt(center[i]))]
           : rotMat \in {rotation_matrix(direction, turns)} })

\* Symmetry_coordo, lines 946-973, for a unit normal n:
\* d = (oldCoordo - point) @ n, newCoord = oldCoordo - 2 d n
Symmetry_coordo(coordo, point, n) ==
    Only({ [i \in 1 .. 3 |-> RSub(coordo[i], RMul(RMul(RInt(2), d), RInt(n[i])))]
           : d \in {RSum([j \in 0 .. 2 |->
                            RMul(RSub(coordo[j + 1], RInt(point[j + 1])),
                                 RInt(n[j + 1]))], 3)} })

\* What an operation leaves: the Point and the value returned.
PointResult(p, out) == [p |-> p, ret |-> out]

\* Point.translate, lines 93-95
Point_translate(p, dx, dy, dz) ==
    PointResult([p EXCEPT !.coordo = Translate_coordo(p.coordo, dx, dy, dz)],
                PointNone)

\* Point.rotate, lines 97-109
Point_rotate(p, turns, center, direction) ==
    PointResult([p EXCEPT !.coordo = Rotate_coordo(p.coordo, turns, center,
                                                   direction)],
                PointNone)

\* Point.symmetry, lines 111-121
Point_symmetry(p, point, n) ==
    PointResult([p EXCEPT !.coordo = Symmetry_coordo(p.coordo, point, n)],
                PointNone)

\* The setter of Point.coordo, lines 59-62
Point_set_coordo(p, value) ==
    IF getCoord(value).err # "" THEN PointResult(p, PointRaise(getCoord(value).err))
    ELSE PointResult([p EXCEPT !.coordo = getCoord(value).coordo], PointNone)

\* self.coordo <operator> coordo of numpy, entry by entry
np_binary(operator, a, b) ==
    CASE operator = "+"  -> RAdd(a, b)
      [] operator = "-"  -> RSub(a, b)
      [] operator = "*"  -> RMul(a, b)
      [] operator = "/"  -> RDiv(a, b)
      [] operator = "//" ->
            IF RDiv(a, b).d = 0 THEN NonFinite
            ELSE RInt(RDiv(a, b).n \div RDiv(a, b).d)

\* An operator that works on the Point itself and returns it.
Point_binary_InPlace(p, operator, value) ==
    IF getCoord(value).err # "" THEN PointResult(p, PointRaise(getCoord(value).err))
    ELSE PointResult(
            [p EXCEPT !.coordo = [c \in 1 .. 3 |->
                np_binary(operator, p.coordo[c], getCoord(value).coordo[c])]],
            PointObject([p EXCEPT !.coordo = [c \in 1 .. 3 |->
                np_binary(operator, p.coordo[c], getCoord(value).coordo[c])]]))

\* Point.__add__, __sub__, __mul__, __truediv__, __floordiv__, lines 126-161:
\* Point(*newCoordo, self.isOpen, self.r)
Point_binary(p, operator, value) ==
    IF getCoord(value).err # "" THEN PointResult(p, PointRaise(getCoord(value).err))
    ELSE PointResult(p,
            PointObject(NewPoint(p.id + 1,
                [c \in 1 .. 3 |->
                    np_binary(operator, p.coordo[c], getCoord(value).coordo[c])],
                p.isOpen, p.r)))

\* Point.__radd__, __rsub__, __rmul__, __rtruediv__, __rfloordiv__, lines
\* 123-156: each returns the operator of the other side; __rsub__ returns
\* self.__add__(value)
Point_reflected(p, operator, value) ==
    Point_binary(p, IF operator = "-" THEN "+" ELSE operator, value)

\* Point.copy, lines 163-164
Point_copy(p) == PointResult(p, PointObject([p EXCEPT !.id = p.id + 1]))

Operators == {"+", "-", "*", "/", "//"}

\* The arguments of the operations.
PointValues ==
    {[kind |-> "number", v |-> k] : k \in -MaxP .. MaxP + 1}
    \cup {[kind |-> "list", v |-> s] : s \in {<<1>>, <<0, 1>>, <<1, 0, -1>>,
                                               <<1, 1, 1, 1>>}}
    \cup {[kind |-> "Point", v |-> Vec(1, 1, 1)], [kind |-> "str", v |-> <<>>]}

UnitAxes == {<<1, 0, 0>>, <<0, 1, 0>>, <<0, 0, 1>>}
AxisMoves ==
    {[c \in 1 .. 3 |-> k * a[c]] : a \in UnitAxes, k \in -MaxP .. MaxP}

InRange(coordo) ==
    \A c \in 1 .. 3 : coordo[c].d = 1 /\ coordo[c].n \in -MaxP .. MaxP

InitPoint ==
    /\ \E x, y, z \in -MaxP .. MaxP : \E isOpen \in BOOLEAN : \E r \in 0 .. MaxP :
         pts = [p |-> NewPoint(0, Vec(x, y, z), isOpen, r),
                before |-> NewPoint(0, Vec(x, y, z), isOpen, r),
                op |-> "init", arg |-> <<>>, ret |-> PointNone]
    /\ GroupIdle /\ ConnIdle /\ BIdle /\ MeshIdle /\ ShapeIdle /\ MapIdle
    /\ RenumIdle /\ SelIdle /\ TicIdle /\ GeomIdle

\* The first operation on a Point (Init gives every Point of the model, so
\* this is also any later operation); the Point stays within the
\* coordinates of the model.
PointOpOn(op, value, r) ==
    /\ pts.op = "init"
    /\ InRange(r.p.coordo)
    /\ pts' = [p |-> r.p, before |-> pts.p, op |-> op, arg |-> value,
               ret |-> r.ret]
    /\ UNCHANGED <<grp, cache, ever, ret, held, conn, res, bIn, bOut, mIn, mSt,
                   nIn, nOut, fIn, fOut,
                 gIn, gOut, sIn, sOut, tic, geo>>

PointOp(op, r) == PointOpOn(op, <<>>, r)

Call_translate ==
    \E d \in AxisMoves : PointOp("translate", Point_translate(pts.p, d[1], d[2], d[3]))

Call_rotate ==
    \E turns \in 0 .. 3, center \in AxisMoves, direction \in UnitAxes :
        PointOp("rotate", Point_rotate(pts.p, turns, center, direction))

Call_symmetry ==
    \E point \in AxisMoves, n \in UnitAxes :
        PointOp("symmetry", Point_symmetry(pts.p, point, n))

Call_set_coordo ==
    \E value \in PointValues : PointOp("coordo", Point_set_coordo(pts.p, value))

Call_binary ==
    \E operator \in Operators, value \in PointValues :
        PointOpOn(operator, value, Point_binary(pts.p, operator, value))

Call_reflected ==
    \E operator \in Operators, value \in PointValues :
        PointOpOn("r" \o operator, value,
                  Point_reflected(pts.p, operator, value))

Call_copy == PointOp("copy", Point_copy(pts.p))

NextPoint ==
    \/ Call_translate
    \/ Call_rotate
    \/ Call_symmetry
    \/ Call_set_coordo
    \/ Call_binary
    \/ Call_reflected
    \/ Call_copy

SpecPoint == InitPoint /\ [][NextPoint]_vars

(***************************************************************************)
(* Claims on SpecPoint.                                                    *)
(***************************************************************************)
Transformations == {"translate", "rotate", "symmetry"}
Arithmetic == Operators \cup {"r" \o o : o \in Operators}

ReturnsNewPointAndKeeps ==
    /\ pts.ret.kind = "Point"
    /\ pts.ret.point.id # pts.p.id
    /\ pts.p = pts.before

\* C17 as stated: translate, rotate and symmetry, like the arithmetic
\* operators, return a new Point and leave the coordinates, the isOpen flag
\* and the radius of the Point they are called on unchanged; no operation
\* of Point changes the coordinates of an existing Point.
C17_PointImmutable ==
    /\ (pts.op \in Transformations \cup Arithmetic /\ pts.ret.kind # "error")
       => ReturnsNewPointAndKeeps
    /\ pts.p.coordo = pts.before.coordo

\* C17 as amended: the arithmetic operators return a new Point, with the
\* isOpen flag and the radius of the Point they are called on, and leave
\* that Point unchanged; translate, rotate, symmetry and the setter of
\* coordo return nothing and replace the coordinates of the Point in place;
\* no operation changes the isOpen flag or the radius of an existing Point.
C17_ArithmeticReturnsNewPoint ==
    /\ (pts.op \in Arithmetic /\ pts.ret.kind # "error")
       => /\ ReturnsNewPointAndKeeps
          /\ pts.ret.point.isOpen = pts.p.isOpen /\ pts.ret.point.r = pts.p.r
    /\ (pts.op \in Transformations \cup {"coordo"})
       => pts.ret.kind \in {"None", "error"}
    /\ pts.p.isOpen = pts.before.isOpen /\ pts.p.r = pts.before.r
    /\ pts.p.id = pts.before.id

\* C17 witness: p + (1, 0, -1) on the open Point (0, 1, 1) of radius 1 gave
\* a new open Point (1, 1, 0) of radius 1 and left the Point where it was.
C17_Witness ==
    /\ pts.op = "+" /\ pts.p.coordo = Vec(0, 1, 1) /\ pts.p.isOpen /\ pts.p.r = 1
    /\ pts.before = pts.p
    /\ pts.ret.kind = "Point" /\ pts.ret.point.coordo = Vec(1, 1, 0)
    /\ pts.ret.point.isOpen /\ pts.ret.point.r = 1

\* C28 as stated: for a Point p and a number or sequence v, v - p, v / p
\* and v // p have the coordinates v_i - p_i, v_i / p_i and v_i // p_i,
\* v + p and v * p are p + v and p * v, and every result is a new Point with
\* the isOpen flag and the radius of p.
C28_ReflectedOperandOrder ==
    (/\ pts.op \in {"r" \o o : o \in Operators}
     /\ pts.arg.kind \in {"number", "list"}
     /\ getCoord(pts.arg).err = "")
    => /\ pts.ret.kind = "Point"
       /\ \A c \in 1 .. 3 :
            pts.ret.point.coordo[c] =
                np_binary(CHOOSE o \in Operators : pts.op = "r" \o o,
                          getCoord(pts.arg).coordo[c], pts.before.coordo[c])
       /\ pts.ret.point.isOpen = pts.before.isOpen
       /\ pts.ret.point.r = pts.before.r
       /\ pts.ret.point.id # pts.p.id
       /\ pts.p = pts.before

(***************************************************************************)
(* SpecRenum: the node numbering of modules/Interface_Gmsh._Construct_Mesh.*)
(* The mesher gives its node tags in some order, the coordinates in the    *)
(* same order, and for a type of element the node tags of its elements.    *)
(* A row of coordinates is named by the position the mesher gave it at.    *)
(***************************************************************************)
\* The mesher's node tags are 1 .. MaxTag, some of them unused.
MaxTag == 4
\* np.argsort(a) of a flat array: the positions by increasing value (by
\* increasing position among equal values)
np_argsort(a) ==
    [k \in DOMAIN a |->
        CHOOSE i \in DOMAIN a :
            Cardinality({j \in DOMAIN a :
                a[j] < a[i] \/ (a[j] = a[i] /\ j < i)}) = k]

\* a[idx] of a flat array
Take(a, idx) == [k \in DOMAIN idx |-> a[idx[k]]]

\* changes[sortedNodes] = sortedNodes, the jumps left in
Renum_changes_Unshifted(nodes) ==
    [t \in 0 .. SetMax({nodes[i] : i \in DOMAIN nodes}) |->
        IF \E i \in DOMAIN nodes : nodes[i] = t THEN t ELSE 0]

\* _Construct_Mesh, lines 1314-1330: sortedIdx, sortedNodes, diff and
\* changes = np.zeros(nodes.max()+1); changes[sortedNodes] = sortedNodes - diff
Renum_changes(nodes) ==
    Only({ Only({ [t \in 0 .. SetMax({nodes[i] : i \in DOMAIN nodes}) |->
                    IF \E k \in DOMAIN sortedNodes : sortedNodes[k] = t
                    THEN t - diff[CHOOSE k \in DOMAIN sortedNodes :
                                      sortedNodes[k] = t]
                    ELSE 0]
                  : diff \in {[k \in DOMAIN sortedNodes |-> sortedNodes[k] - k]} })
           : sortedNodes \in {Take(nodes, np_argsort(nodes))} })

\* line 1333: coord.reshape(-1,3)[sortedIdx,:]
Renum_coordo(nodes, coord) == Take(coord, np_argsort(nodes))

\* _Construct_Mesh, lines 1309-1361, for one type of element: the nodes and
\* the coordinates, then nodeTags - 1, changes[nodeTags], connect, the nodes
\* of the group and the assertion on the largest of them
Renum_Construct_Mesh(g) ==
    Only({ Only({ Only({
        IF SetMax({connect[e][n] : e \in DOMAIN connect, n \in 0 .. 1})
               <= Cardinality(DOMAIN coordo) - 1
        THEN [err |-> "", Nn |-> Cardinality(DOMAIN nodes), changes |-> changes,
              coordo |-> coordo, connect |-> connect,
              nodes |-> np_unique(ravel(connect))]
        ELSE [err |-> "AssertionError", Nn |-> Cardinality(DOMAIN nodes),
              changes |-> changes, coordo |-> coordo, connect |-> <<>>,
              nodes |-> <<>>]
        : connect \in {[e \in DOMAIN g.nodeTags |->
                          [n \in 0 .. 1 |-> changes[g.nodeTags[e][n] - 1]]]} })
        : <<changes, coordo>> \in {<<Renum_changes(nodes),
                                     Renum_coordo(nodes, g.coord)>>} })
        : nodes \in {[i \in DOMAIN g.nodes |-> g.nodes[i] - 1]} })

\* The orders a set of tags can be given in.
RECURSIVE Orders(_)
Orders(S) ==
    IF S = {} THEN {<<>>}
    ELSE UNION {{Append(s, x) : s \in Orders(S \ {x})} : x \in S}

ZeroBased(s) == [i \in 0 .. Len(s) - 1 |-> s[i + 1]]

\* The segments of a group: one segment between any two of the tags, or the
\* chain of segments from each tag given to the next one given.
Segments(s) ==
    {<<ZeroBased(<<a, b>>)>> : a, b \in SeqRange(s)}
    \cup {[e \in 1 .. Len(s) - 1 |-> ZeroBased(<<s[e], s[e + 1]>>)] : x \in
             {y \in {Len(s)} : y >= 2}}

\* The mesher's answers: distinct tags in any order, a row of coordinates per
\* tag, and elements whose nodes are among the tags.
RenumInputs ==
    UNION {UNION {{[nodes |-> ZeroBased(s),
                    coord |-> [i \in 0 .. Len(s) - 1 |-> i],
                    nodeTags |-> ZeroBased(el)]
                   : el \in Segments(s)}
                  : s \in Orders(S)}
           : S \in (SUBSET (1 .. MaxTag)) \ {{}}}

InitRenum ==
    /\ gIn \in RenumInputs
    /\ gOut = [op |-> "init"]
    /\ tic = Tic_start
    /\ GroupIdle /\ ConnIdle /\ BIdle /\ MeshIdle /\ ShapeIdle /\ MapIdle
    /\ PointIdle /\ SelIdle /\ GeomIdle

\* _Construct_Mesh() takes d seconds and times itself when it succeeds.
Call_Renum_Construct_Mesh ==
    /\ gOut.op = "init"
    /\ \E d \in 0 .. 1, r \in {Renum_Construct_Mesh(gIn)} :
         /\ gOut' = [op |-> "_Construct_Mesh", r |-> r]
         /\ tic' = Construct_Mesh_tic(tic, r.err # "", d)
    /\ UNCHANGED <<grp, cache, ever, ret, held, conn, res, bIn, bOut, mIn, mSt,
                   nIn, nOut, fIn, fOut, pts, gIn, sIn, sOut, geo>>

NextRenum == Call_Renum_Construct_Mesh

SpecRenum == InitRenum /\ [][NextRenum]_vars

(***************************************************************************)
(* Claims on SpecRenum.                                                    *)
(***************************************************************************)
\* The zero-based node numbers the mesher gave, and the rank of one of them.
GivenNodes == {gIn.nodes[i] - 1 : i \in DOMAIN gIn.nodes}
Rank(t) == Cardinality({u \in GivenNodes : u < t})

\* C21: the correction map sends the k-th smallest node tag to k, an
\* order-preserving bijection onto 0 .. Nn-1; row k of the coordinate table
\* is the row the mesher gave for the k-th smallest tag; every entry of the
\* group's connectivity after correction is a row index below Nn, the
\* corrected number of the element's node.
C21_ContiguousNumbering ==
    gOut.op = "_Construct_Mesh"
    => /\ gOut.r.err = ""
       /\ gOut.r.Nn = Cardinality(GivenNodes)
       /\ \A t \in GivenNodes : gOut.r.changes[t] = Rank(t)
       /\ {gOut.r.changes[t] : t \in GivenNodes} = 0 .. gOut.r.Nn - 1
       /\ DOMAIN gOut.r.coordo = 0 .. gOut.r.Nn - 1
       /\ \A i \in DOMAIN gIn.nodes :
            gOut.r.coordo[Rank(gIn.nodes[i] - 1)] = gIn.coord[i]
       /\ \A e \in DOMAIN gOut.r.connect : \A n \in 0 .. 1 :
            /\ gOut.r.connect[e][n] \in 0 .. gOut.r.Nn - 1
            /\ gOut.r.connect[e][n] = Rank(gIn.nodeTags[e][n] - 1)

\* C21 witness: the tags 4, 1, 3 given in that order, tag 2 unused, and the
\* elements from tag 4 to tag 1 and from tag 1 to tag 3: numbers 2, 0, 1,
\* rows 1, 2, 0 of the mesher's coordinates, elements (2, 0) and (0, 1).
C21_Witness ==
    /\ gOut.op = "_Construct_Mesh"
    /\ gIn.nodes = ZeroBased(<<4, 1, 3>>)
    /\ Cardinality(DOMAIN gIn.nodeTags) = 2
    /\ gOut.r.changes[3] = 2 /\ gOut.r.changes[0] = 0 /\ gOut.r.changes[2] = 1
    /\ gOut.r.coordo = ZeroBased(<<1, 2, 0>>)
    /\ gOut.r.connect[0] = ZeroBased(<<2, 0>>)
    /\ gOut.r.connect[1] = ZeroBased(<<0, 1>>)

(***************************************************************************)
(* SpecContour: Contour.__init__ of modules/Geom.py on a list of geometric *)
(* objects.  geo.heap gives the coordinates of the Point objects, named by *)
(* their identity; an object holds the identities of its points, in order. *)
(* The coordinates of the model are integers, where a distance is at most  *)
(* the tolerance 1e-12 exactly when the two points have equal coordinates. *)
(***************************************************************************)
\* A contour is built from 1 .. MaxGeoms objects.
MaxGeoms == 3

\* Geom.__init__, lines 169-191; a name is the sequence of its parts
NewGeom(kind, nb, points, meshSize, isHollow, isOpen) ==
    [kind |-> kind, name |-> <<kind, nb>>, points |-> points,
     meshSize |-> meshSize, isHollow |-> isHollow, isOpen |-> isOpen,
     geoms |-> <<>>]

\* np.linalg.norm(p.coordo - q.coordo) <= tol
Within_tol(heap, p, q) == heap[p] = heap[q]

\* [p for p in geom.points if p not in points]: Point has no __eq__, `in`
\* compares identities
NotIn(geomPoints, points) ==
    SelectSeq(geomPoints, LAMBDA p : p \notin SeqRange(points))

ContourError == "The contour must form a closed loop."

\* Contour.__init__, lines 806-825: the loop `for i, geom in enumerate(geoms)`
\* (i counted from 1 here)
RECURSIVE Contour_loop(_, _, _, _)
Contour_loop(heap, geoms, i, points) ==
    IF i > Len(geoms) THEN [err |-> "", points |-> points]
    ELSE IF i = 1
    THEN Contour_loop(heap, geoms, i + 1,
                      points \o NotIn(geoms[i].points, points))
    ELSE IF i < Len(geoms)
    THEN IF Within_tol(heap, geoms[i].points[1], points[Len(points)])
         THEN Contour_loop(heap, geoms, i + 1,
                           points \o NotIn(geoms[i].points, points))
         ELSE [err |-> ContourError, points |-> points]
    ELSE IF /\ Within_tol(heap, geoms[i].points[1], points[Len(points)])
            /\ Within_tol(heap, geoms[i].points[Len(geoms[i].points)], points[1])
         THEN Contour_loop(heap, geoms, i + 1,
                           points \o NotIn(geoms[i].points, points))
         ELSE [err |-> ContourError, points |-> points]

\* np.mean([geom.meshSize for geom in geoms]) of equal mesh sizes
MeanMeshSize(geoms) == geoms[1].meshSize

\* Contour.__init__, lines 789-833
Contour_init(heap, geoms, isHollow, isOpen) ==
    Only({ IF r.err # "" THEN [err |-> r.err, obj |-> <<>>]
           ELSE [err |-> "",
                 obj |-> [NewGeom("Contour", 1, r.points, MeanMeshSize(geoms),
                                  isHollow, isOpen) EXCEPT !.geoms = geoms]]
           : r \in {Contour_loop(heap, geoms, 1, <<>>)} })

\* The Points of SpecContour: three at the corners of a triangle and a
\* fourth object at the coordinates of the first.
ContourHeap ==
    <<Vec(0, 0, 0), Vec(1, 0, 0), Vec(0, 1, 0), Vec(0, 0, 0)>>

\* Line.__init__, lines 452-472, and PointsList.__init__, lines 327-351
Line_init(nb, pt1, pt2) == NewGeom("Line", nb, <<pt1, pt2>>, 0, FALSE, FALSE)
PointsList_init(nb, points) == NewGeom("PointsList", nb, points, 0, TRUE, FALSE)

\* The objects a contour is made of: the lines between two of the Points and
\* two lists of three Points, one of them closed in itself.
ContourParts(nb) ==
    {Line_init(nb, a, b) : <<a, b>> \in
        {p \in (DOMAIN ContourHeap) \X (DOMAIN ContourHeap) : p[1] # p[2]}}
    \cup {PointsList_init(nb, <<1, 2, 4>>), PointsList_init(nb, <<1, 2, 3>>)}

RECURSIVE ContourLists(_)
ContourLists(n) ==
    IF n = 0 THEN {<<>>}
    ELSE {Append(l, g) : <<l, g>> \in ContourLists(n - 1) \X ContourParts(n)}

InitContour ==
    /\ \E n \in 1 .. MaxGeoms : \E l \in ContourLists(n) :
         geo = [heap |-> ContourHeap, geoms |-> l, op |-> "init", err |-> "",
                made |-> <<>>]
    /\ GroupIdle /\ ConnIdle /\ BIdle /\ MeshIdle /\ ShapeIdle /\ MapIdle
    /\ PointIdle /\ RenumIdle /\ SelIdle /\ TicIdle

Call_Contour ==
    /\ geo.op = "init"
    /\ \E isHollow, isOpen \in BOOLEAN :
         geo' = [geo EXCEPT !.op = "Contour",
                   !.err = Contour_init(geo.heap, geo.geoms, isHollow, isOpen).err,
                   !.made = Contour_init(geo.heap, geo.geoms, isHollow, isOpen).obj]
    /\ UNCHANGED <<grp, cache, ever, ret, held, conn, res, bIn, bOut, mIn, mSt,
                   nIn, nOut, fIn, fOut, pts, gIn, gOut, sIn, sOut, tic>>

NextContour == Call_Contour

SpecContour == InitContour /\ [][NextContour]_vars

(***************************************************************************)
(* Claims on SpecContour.                                                  *)
(***************************************************************************)
FirstOf(g) == g.points[1]
LastOf(g) == g.points[Len(g.points)]

\* Each object starts where the previous one ends and the last one ends
\* where the first one starts.
ClosedLoop(heap, geoms) ==
    /\ \A i \in 2 .. Len(geoms) :
         heap[FirstOf(geoms[i])] = heap[LastOf(geoms[i - 1])]
    /\ heap[LastOf(geoms[Len(geoms)])] = heap[FirstOf(geoms[1])]

\* C22 as stated: for every non-empty list of objects, a list of one or two
\* included, Contour.__init__ succeeds only if the objects form a closed
\* loop, and fails otherwise with 'The contour must form a closed loop.'
C22_ClosedLoopChecked ==
    geo.op = "Contour"
    => /\ geo.err = "" => ClosedLoop(geo.heap, geo.geoms)
       /\ ~ClosedLoop(geo.heap, geo.geoms) => geo.err = ContourError

(***************************************************************************)
(* SpecGeom: a geometric object of modules/Geom.py, its copy and the       *)
(* transformations applied to either.  geo.heap gives the coordinates of   *)
(* every Point object alive, named by identity.                            *)
(***************************************************************************)
\* At most MaxMoves transformations follow the copy.
MaxMoves == 2

\* Every Point an object reaches: its own and those of the objects it holds.
ReachedPoints(obj) ==
    SeqRange(obj.points)
    \cup UNION {SeqRange(obj.geoms[k].points) : k \in DOMAIN obj.geoms}

\* The object with every Point identity replaced by its image under f.
Relinked(obj, f) ==
    [obj EXCEPT
        !.points = [i \in DOMAIN obj.points |-> f[obj.points[i]]],
        !.geoms = [k \in DOMAIN obj.geoms |->
                     [obj.geoms[k] EXCEPT
                        !.points = [i \in DOMAIN obj.geoms[k].points |->
                                       f[obj.geoms[k].points[i]]]]]]

\* Geom.name setter, lines 223-225: self.__name = val
Geom_set_name(obj, val) == [obj EXCEPT !.name = val]

\* A copy that is a new object holding the Points of the original.
Geom_copy_Shallow(heap, obj) ==
    [heap |-> heap, obj |-> [obj EXCEPT !.name = obj.name \o <<"_copy">>]]

\* Geom.copy, lines 213-216: copy.deepcopy(self) makes one new Point for
\* every Point the object reaches, then new.name = new.name + '_copy'
Geom_copy(heap, obj) ==
    Only({ [heap |-> heap \o [k \in 1 .. Len(old) |-> heap[old[k]]],
            obj |-> [Relinked(obj,
                        [p \in ReachedPoints(obj) |->
                            Len(heap) + CHOOSE k \in DOMAIN old : old[k] = p])
                     EXCEPT !.name = obj.name \o <<"_copy">>]]
           : old \in {Sorted(ReachedPoints(obj))} })

\* [p.translate(*dec[i]) for i, p in enumerate(points)]: one Point after
\* the other, a Point listed twice moved twice.  The moves of the model are
\* whole numbers.
RECURSIVE TranslateEach(_, _, _, _)
TranslateEach(heap, points, dec, i) ==
    IF i > Len(points) THEN heap
    ELSE TranslateEach(
            [heap EXCEPT ![points[i]] =
                Translate_coordo(@, dec[i][1].n, dec[i][2].n, dec[i][3].n)],
            points, dec, i + 1)

\* Geom.translate, lines 237-240
Geom_translate(heap, obj, d) ==
    TranslateEach(heap, obj.points,
                  [i \in DOMAIN obj.points |-> Vec(d[1], d[2], d[3])], 1)

\* Geom.rotate, lines 242-258: dec = newCoord - oldCoord, then the
\* translation of every point by its row of dec
Geom_rotate(heap, obj, turns, center, direction) ==
    TranslateEach(heap, obj.points,
        [i \in DOMAIN obj.points |->
            [c \in 1 .. 3 |->
                RSub(Rotate_coordo(heap[obj.points[i]], turns, center,
                                   direction)[c],
                     heap[obj.points[i]][c])]], 1)

\* Geom.symmetry, lines 260-275
Geom_symmetry(heap, obj, point, n) ==
    TranslateEach(heap, obj.points,
        [i \in DOMAIN obj.points |->
            [c \in 1 .. 3 |->
                RSub(Symmetry_coordo(heap[obj.points[i]], point, n)[c],
                     heap[obj.points[i]][c])]], 1)

\* PointsList.Get_Contour, lines 353-423, for points without radius at
\* different places: the lines from each point to the next one and back to
\* the first, Contour(geoms, isHollow, isOpen).copy(), and the name
RECURSIVE LinkLines(_, _)
LinkLines(obj, p) ==
    IF p > Len(obj.points) THEN <<>>
    ELSE <<[Line_init(p, obj.points[p],
                      obj.points[IF p < Len(obj.points) THEN p + 1 ELSE 1])
            EXCEPT !.meshSize = obj.meshSize, !.isOpen = obj.isOpen]>>
         \o LinkLines(obj, p + 1)

PointsList_Get_Contour(heap, obj) ==
    Only({ [heap |-> c.heap,
            obj |-> [c.obj EXCEPT !.name = obj.name \o <<"_contour">>]]
           : c \in {Geom_copy(heap,
                        Contour_init(heap, LinkLines(obj, 1), obj.isHollow,
                                     obj.isOpen).obj)} })

\* The objects of SpecGeom, on the Points of a triangle: a line, a list of
\* points, and a contour of three lines that share their end points.
GeomHeap == <<Vec(0, 0, 0), Vec(1, 0, 0), Vec(0, 1, 0)>>

GeomObjects ==
    {[Line_init(1, 1, 2) EXCEPT !.meshSize = m, !.isOpen = o]
        : m \in 0 .. 1, o \in BOOLEAN}
    \cup {[PointsList_init(1, <<1, 2, 3>>) EXCEPT !.meshSize = m, !.isHollow = h]
            : m \in 0 .. 1, h \in BOOLEAN}
    \cup {Contour_init(GeomHeap,
                       <<Line_init(1, 1, 2), Line_init(2, 2, 3),
                         Line_init(3, 3, 1)>>, h, o).obj
            : h, o \in BOOLEAN}

GeomMoves == {<<1, 0, 0>>, <<0, -1, 0>>, <<0, 0, 1>>}

\* The name a caller gives to an object (codes/Meshes/Mesh4.py, line 30).
GeomNames == {<<"rot axis">>}

InitGeom ==
    /\ \E obj \in GeomObjects :
         geo = [heap |-> GeomHeap, before |-> GeomHeap, orig |-> obj,
                copy |-> <<>>, op |-> "init", on |-> "", moves |-> 0]
    /\ GroupIdle /\ ConnIdle /\ BIdle /\ MeshIdle /\ ShapeIdle /\ MapIdle
    /\ PointIdle /\ RenumIdle /\ SelIdle /\ TicIdle

GeomFrame ==
    UNCHANGED <<grp, cache, ever, ret, held, conn, res, bIn, bOut, mIn, mSt,
                nIn, nOut, fIn, fOut, pts, gIn, gOut, sIn, sOut, tic>>

Copied(op, r) ==
    /\ geo.copy = <<>>
    /\ geo' = [geo EXCEPT !.heap = r.heap, !.before = geo.heap,
                          !.copy = r.obj, !.op = op]
    /\ GeomFrame

Call_Geom_copy == Copied("copy", Geom_copy(geo.heap, geo.orig))

Call_Get_Contour ==
    /\ geo.orig.kind = "PointsList"
    /\ Copied("Get_Contour", PointsList_Get_Contour(geo.heap, geo.orig))

\* A transformation of the original or of the copy.
Moved(op, on, heap) ==
    /\ geo.copy # <<>> /\ geo.moves < MaxMoves
    /\ geo' = [geo EXCEPT !.heap = heap, !.before = geo.heap, !.op = op,
                          !.on = on, !.moves = geo.moves + 1]
    /\ GeomFrame

Call_Geom_translate ==
    \E on \in {"orig", "copy"}, d \in GeomMoves :
        Moved("translate", on, Geom_translate(geo.heap, geo[on], d))

Call_Geom_rotate ==
    \E on \in {"orig", "copy"}, center \in {<<0, 0, 0>>, <<1, 0, 0>>} :
        Moved("rotate", on,
              Geom_rotate(geo.heap, geo[on], 1, center, <<0, 0, 1>>))

Call_Geom_symmetry ==
    \E on \in {"orig", "copy"}, n \in {<<1, 0, 0>>, <<0, 1, 0>>} :
        Moved("symmetry", on, Geom_symmetry(geo.heap, geo[on], <<1, 0, 0>>, n))

\* obj.name = val on the original, or on the copy once there is one.
Call_Geom_set_name ==
    \E on \in {"orig", "copy"}, val \in GeomNames :
        /\ geo[on] # <<>>
        /\ geo[on].name # val
        /\ geo' = [geo EXCEPT ![on] = Geom_set_name(geo[on], val),
                              !.before = geo.heap, !.op = "name", !.on = on]
        /\ GeomFrame

NextGeom ==
    \/ Call_Geom_set_name
    \/ Call_Geom_copy
    \/ Call_Get_Contour
    \/ Call_Geom_translate
    \/ Call_Geom_rotate
    \/ Call_Geom_symmetry

SpecGeom == InitGeom /\ [][NextGeom]_vars

(***************************************************************************)
(* Claims on SpecGeom.                                                     *)
(***************************************************************************)
CoordinatesOf(heap, obj) == [i \in DOMAIN obj.points |-> heap[obj.points[i]]]

OtherObject == IF geo.on = "copy" THEN geo.orig ELSE geo.copy

\* C30: the copy is named '<name>_copy', has the coordinates, the mesh size
\* and the hollow and open flags of the original and shares no Point with
\* it; a translate, rotate or symmetry applied later to the copy leaves
\* every coordinate of the original unchanged, and the other way round; the
\* contour PointsList.Get_Contour returns shares no Point with the list.
C30_CopyIndependent ==
    /\ geo.op = "copy"
       => /\ geo.copy.name = geo.orig.name \o <<"_copy">>
          /\ geo.copy.kind = geo.orig.kind
          /\ CoordinatesOf(geo.heap, geo.copy) = CoordinatesOf(geo.heap, geo.orig)
          /\ geo.copy.meshSize = geo.orig.meshSize
          /\ geo.copy.isHollow = geo.orig.isHollow
          /\ geo.copy.isOpen = geo.orig.isOpen
          /\ \A p \in ReachedPoints(geo.orig) : geo.heap[p] = geo.before[p]
    /\ geo.copy # <<>>
       => ReachedPoints(geo.copy) \cap ReachedPoints(geo.orig) = {}
    /\ geo.op \in {"translate", "rotate", "symmetry"}
       => \A p \in ReachedPoints(OtherObject) : geo.heap[p] = geo.before[p]

\* C30 witness: the copy of the contour was turned a quarter about the
\* origin and then the original moved by one along x: the second corner of
\* the copy is at (0, 1, 0), that of the original at (2, 0, 0).
C30_Witness ==
    /\ geo.orig.kind = "Contour" /\ geo.op = "translate" /\ geo.on = "orig"
    /\ geo.moves = 2
    /\ geo.copy.name = <<"Contour", 1, "_copy">>
    /\ geo.heap[geo.copy.points[2]] = Vec(0, 1, 0)
    /\ geo.heap[geo.orig.points[2]] = Vec(2, 0, 0)

\* ---------------------------------------------------------------------
\* SpecTic: the timing history of modules/TicTac.py.  The clock is
\* counted in whole seconds; Tic.__History is one class attribute.
\* ---------------------------------------------------------------------

MaxTics == 2

Categories == {"", "Mesh"}
Texts == {"a", "b"}

RLt(a, b) == a.n * b.d < b.n * a.d

\* Tic.Get_time_unity(time): the scaled time and its unit
Get_time_unity(time) ==
    IF RLt(RInt(1), time)
    THEN IF RLt(time, RInt(60)) THEN <<time, "s">>
         ELSE IF RLt(RInt(60), time) /\ RLt(time, RInt(3600))
              THEN <<RDiv(time, RInt(60)), "m">>
         ELSE IF RLt(RInt(3600), time) /\ RLt(time, RInt(86400))
              THEN <<RDiv(time, RInt(3600)), "h">>
         ELSE <<RDiv(time, RInt(86400)), "j">>
    ELSE IF RLt(time, RInt(1)) /\ RLt(Rat(1, 1000), time)
         THEN <<RMul(time, RInt(1000)), "ms">>
    ELSE IF RLt(time, Rat(1, 1000))
         THEN <<RMul(time, RInt(1000000)), "µs">>
    ELSE <<time, "s">>

\* Tic.Clear(): the history afterwards
Tic_Clear == <<>>

InitTic ==
    /\ tic = [clock |-> 0,
              start |-> <<>>,
              History |-> <<>>,
              mark |-> <<>>,
              calls |-> <<>>,
              last |-> [op |-> "init"]]
    /\ GroupIdle /\ ConnIdle /\ BIdle /\ MeshIdle /\ ShapeIdle /\ MapIdle
    /\ PointIdle /\ RenumIdle /\ SelIdle /\ GeomIdle

TicFrame ==
    UNCHANGED <<grp, cache, ever, ret, held, conn, res, bIn, bOut, mIn, mSt,
                nIn, nOut, fIn, fOut, pts, gIn, gOut, sIn, sOut, geo>>

\* time passes
Tick ==
    /\ tic.clock < MaxClock
    /\ tic' = [tic EXCEPT !.clock = tic.clock + 1]
    /\ TicFrame

\* tic = Tic()
Call_Tic ==
    /\ Len(tic.start) < MaxTics
    /\ tic' = [tic EXCEPT !.start = Append(tic.start, Tic_init(tic.clock)),
                          !.mark = Append(tic.mark, tic.clock),
                          !.last = [op |-> "Tic", self |-> Len(tic.start) + 1]]
    /\ TicFrame

\* tic.Tac(category, text); mark and calls record when the call was made
\* and what it was asked.
Call_Tac ==
    /\ Len(tic.calls) < MaxTacs
    /\ \E i \in DOMAIN tic.start, category \in Categories, text \in Texts,
          d \in 0 .. 1 :
         /\ tic.clock + d <= MaxClock
         /\ \E r \in {Tic_Tac(tic, i, category, text,
                              tic.clock, tic.clock + d)} :
              tic' = [tic EXCEPT
                        !.clock = tic.clock + d,
                        !.start = r.start,
                        !.History = r.History,
                        !.mark[i] = tic.clock + d,
                        !.calls = Append(tic.calls,
                                    [self |-> i, category |-> category,
                                     text |-> text,
                                     elapsed |-> tic.clock - tic.mark[i]]),
                        !.last = [op |-> "Tac", self |-> i, tf |-> r.tf]]
    /\ TicFrame

\* Tic.Clear()
Call_Clear ==
    /\ tic' = [tic EXCEPT !.History = Tic_Clear, !.calls = <<>>,
                          !.last = [op |-> "Clear"]]
    /\ TicFrame

NextTic ==
    \/ Tick
    \/ Call_Tic
    \/ Call_Tac
    \/ Call_Clear

SpecTic == InitTic /\ [][NextTic]_vars

\* The [text, elapsed] pairs of the calls made with the category c
RECURSIVE CallsOf(_, _)
CallsOf(calls, c) ==
    IF calls = <<>> THEN <<>>
    ELSE (IF calls[1].category = c
          THEN <<<<calls[1].text, calls[1].elapsed>>>> ELSE <<>>)
         \o CallsOf(Tail(calls), c)

\* C26: the history is one record for all instances: under each category
\* it lists, in call order, the [text, elapsed time] of every Tac made
\* with that category by any instance since the last Clear, the elapsed
\* time counted from the creation of the instance or from its previous
\* Tac; a category is present only once a Tac named it, and Clear leaves
\* no category.
C26_SharedHistory ==
    /\ DOMAIN tic.History = { tic.calls[k].category : k \in DOMAIN tic.calls }
    /\ \A c \in DOMAIN tic.History : tic.History[c] = CallsOf(tic.calls, c)
    /\ tic.last.op = "Tac" => tic.last.tf = tic.calls[Len(tic.calls)].elapsed
    /\ tic.last.op = "Clear" => tic.History = <<>>

\* C26 witness: two instances timed under the same category, the second
\* one a second after the first; both entries are in the one list.
C26_Witness ==
    /\ tic.last.op = "Tac" /\ Len(tic.calls) = 2
    /\ tic.calls[1].self # tic.calls[2].self
    /\ DOMAIN tic.History = {"Mesh"}
    /\ tic.History["Mesh"] = <<<<"a", 1>>, <<"b", 2>>>>

\* ---------------------------------------------------------------------
\* SpecUnity: Tic.Get_time_unity on durations around the unit boundaries.
\* ---------------------------------------------------------------------

MaxQuarters == 24

\* The boundaries of the unit ranges, in seconds
Boundaries == {Rat(1, 1000), RInt(1), RInt(60), RInt(3600), RInt(86400)}

\* Quarter multiples of the boundaries
Durations ==
    { RMul(Rat(k, 4), b) : k \in 0 .. MaxQuarters, b \in Boundaries }

InitUnity ==
    /\ tic = [last |-> [op |-> "init"]]
    /\ GroupIdle /\ ConnIdle /\ BIdle /\ MeshIdle /\ ShapeIdle /\ MapIdle
    /\ PointIdle /\ RenumIdle /\ SelIdle /\ GeomIdle

\* Tic.Get_time_unity(time)
Call_Get_time_unity ==
    /\ tic.last.op = "init"
    /\ \E time \in Durations :
         tic' = [last |-> [op |-> "Get_time_unity", time |-> time,
                           r |-> Get_time_unity(time)]]
    /\ TicFrame

NextUnity == Call_Get_time_unity

SpecUnity == InitUnity /\ [][NextUnity]_vars

\* The unit and the factor of the range a duration lies in
UnitOf(time) ==
    IF RLt(time, Rat(1, 1000)) THEN "µs"
    ELSE IF RLt(time, RInt(1)) THEN "ms"
    ELSE IF RLt(time, RInt(60)) THEN "s"
    ELSE IF RLt(time, RInt(3600)) THEN "m"
    ELSE IF RLt(time, RInt(86400)) THEN "h"
    ELSE "j"

Scale(unit) ==
    CASE unit = "µs" -> Rat(1000000, 1)
      [] unit = "ms" -> Rat(1000, 1)
      [] unit = "s" -> Rat(1, 1)
      [] unit = "m" -> Rat(1, 60)
      [] unit = "h" -> Rat(1, 3600)
      [] unit = "j" -> Rat(1, 86400)

\* C27: Get_time_unity gives microseconds below 1e-3, milliseconds from
\* 1e-3 to below 1, seconds from 1 to below 60, minutes from 60 to below
\* 3600, hours from 3600 to below 86400 and days from 86400 on, with the
\* time scaled to that unit.
C27_UnitRanges ==
    tic.last.op = "Get_time_unity"
    => tic.last.r = <<RMul(tic.last.time, Scale(UnitOf(tic.last.time))),
                      UnitOf(tic.last.time)>>

\* ---------------------------------------------------------------------
\* SpecInfos: GroupElem.Get_ElemInFos asked about any mesher type id.
\* ---------------------------------------------------------------------

MaxGmshId == 60

\* The whole of Get_ElemInFos: the else branch raises a str, which Python 3
\* refuses with a TypeError.
Get_ElemInFos_call(gmshId) ==
    IF gmshId \in KnownGmshIds
    THEN [kind |-> "return", value |-> Get_ElemInFos(gmshId), err |-> ""]
    ELSE [kind |-> "raise", value |-> <<>>, err |-> "TypeError"]

InitInfos ==
    /\ sIn \in 0 .. MaxGmshId
    /\ sOut = [op |-> "init"]
    /\ GroupIdle /\ ConnIdle /\ BIdle /\ MeshIdle /\ ShapeIdle /\ MapIdle
    /\ PointIdle /\ RenumIdle /\ TicIdle /\ GeomIdle

Call_Get_ElemInFos ==
    /\ sOut.op = "init"
    /\ sOut' = [op |-> "Get_ElemInFos", r |-> Get_ElemInFos_call(sIn)]
    /\ UNCHANGED <<grp, cache, ever, ret, held, conn, res, bIn, bOut, mIn, mSt,
                   nIn, nOut, fIn, fOut, pts, gIn, gOut, sIn, tic, geo>>

NextInfos == Call_Get_ElemInFos

SpecInfos == InitInfos /\ [][NextInfos]_vars

\* The family and the integer suffix of a type name
NameParts ==
    [SEG2 |-> <<"SEG", 2>>, SEG3 |-> <<"SEG", 3>>,
     TRI3 |-> <<"TRI", 3>>, TRI6 |-> <<"TRI", 6>>,
     QUAD4 |-> <<"QUAD", 4>>, QUAD8 |-> <<"QUAD", 8>>, QUAD9 |-> <<"QUAD", 9>>,
     TETRA4 |-> <<"TETRA", 4>>, TETRA10 |-> <<"TETRA", 10>>,
     HEXA8 |-> <<"HEXA", 8>>, CUBE27 |-> <<"CUBE", 27>>,
     PRISM6 |-> <<"PRISM", 6>>, PRISM15 |-> <<"PRISM", 15>>,
     PRISM18 |-> <<"PRISM", 18>>,
     PYRA5 |-> <<"PYRA", 5>>, PYRA13 |-> <<"PYRA", 13>>,
     PYRA14 |-> <<"PYRA", 14>>,
     POINT |-> <<"POINT", 1>>]

FamilyDim(family) ==
    CASE family = "POINT" -> 0
      [] family = "SEG" -> 1
      [] family \in {"TRI", "QUAD"} -> 2
      [] OTHER -> 3

\* C24: for the ids 1..16, 18 and 19 Get_ElemInFos returns a type whose
\* nPe is the integer suffix of its name (1 for POINT) and whose dim is 0
\* for POINT, 1 for SEG*, 2 for TRI* and QUAD*, 3 otherwise; every other
\* id fails with an error.
C24_ElemInfos ==
    sOut.op = "Get_ElemInFos"
    => IF sIn \in (1 .. 16) \cup {18, 19}
       THEN /\ sOut.r.kind = "return"
            /\ sOut.r.value.type \in DOMAIN NameParts
            /\ sOut.r.value.nPe = NameParts[sOut.r.value.type][2]
            /\ sOut.r.value.dim = FamilyDim(NameParts[sOut.r.value.type][1])
       ELSE sOut.r.kind = "raise"

\* ---------------------------------------------------------------------
\* SpecSel: the node selections of one group.  The group holds the node
\* ids it was given (sorted, as np.unique leaves them) and the rows
\* coordoGlob[nodes] of the mesh's coordinates; all coordinates are
\* integers, so that a distance below np.finfo(float).eps is a zero
\* distance.
\* ---------------------------------------------------------------------

MaxMeshNodes == 4

\* coordoGlob: the coordinates of the mesh's nodes 0 .. MaxMeshNodes - 1
MeshCoordo ==
    [i \in 0 .. MaxMeshNodes - 1 |-> <<i % 3, (i \div 3) % 2, i \div 4>>]

\* GroupElem.__init__, lines 28-30
Sel_init(nodes, coordoMesh) ==
    [nodes |-> nodes,
     coordo |-> [k \in DOMAIN nodes |-> coordoMesh[nodes[k]]]]

\* GroupElem.Nn, lines 76-79
Sel_Nn(g) == Cardinality(DOMAIN g.nodes)

\* np.where(mask)[0]
np_where(mask) == Arr0(Sorted({k \in DOMAIN mask : mask[k]}))

\* self.__nodes[noeuds]
Sel_take(g, noeuds) == [i \in DOMAIN noeuds |-> g.nodes[noeuds[i]]]

SelReturn(v) == [kind |-> "return", val |-> v, err |-> ""]
SelRaise(e) == [kind |-> "raise", val |-> <<>>, err |-> e]

\* A condition on one coordinate x: True, `lambda x: x == v`, or
\* `lambda x: x > lo and x < hi`.
Condition_call(cond, x) ==
    IF cond.kind = "eq" THEN x = cond.v ELSE x > cond.lo /\ x < cond.hi

\* Lines 807-831 for one axis: the array the condition gives on the whole
\* column, or, when the condition raises on an array (an `and` of arrays
\* of more than one element), the list of its values node by node.
Sel_valideCondition(g, cond, axis) ==
    IF cond.kind = "bool"
    THEN [list |-> FALSE, v |-> [k \in DOMAIN g.nodes |-> TRUE]]
    ELSE [list |-> cond.kind = "and" /\ Sel_Nn(g) > 1,
          v |-> [k \in DOMAIN g.nodes |-> Condition_call(cond, g.coordo[k][axis])]]

\* Get_Nodes_Conditions, lines 775-837; the product of two lists is a
\* TypeError, that of an array and a list or an array is an array.
Get_Nodes_Conditions(g, conditionX, conditionY, conditionZ) ==
    IF conditionX.kind = "bool" /\ conditionY.kind = "bool"
       /\ conditionZ.kind = "bool"
    THEN SelReturn([k \in 0 .. Sel_Nn(g) - 1 |-> k])
    ELSE Only({ IF X.list /\ Y.list THEN SelRaise("TypeError")
                ELSE SelReturn(Sel_take(g, np_where(
                        [k \in DOMAIN g.nodes |-> X.v[k] /\ Y.v[k] /\ Z.v[k]])))
                : <<X, Y, Z>> \in {<<Sel_valideCondition(g, conditionX, 1),
                                     Sel_valideCondition(g, conditionY, 2),
                                     Sel_valideCondition(g, conditionZ, 3)>>} })

\* Get_Nodes_Point, lines 839-845; point is (x, y, z)
Get_Nodes_Point(g, point) ==
    SelReturn(Sel_take(g, np_where(
        [k \in DOMAIN g.nodes |->
            /\ g.coordo[k][1] = point[1]
            /\ g.coordo[k][2] = point[2]
            /\ g.coordo[k][3] = point[3]])))

Minus3(a, b) == <<a[1] - b[1], a[2] - b[2], a[3] - b[3]>>
Dot3(a, b) == a[1] * b[1] + a[2] * b[2] + a[3] * b[3]
Cross3(a, b) ==
    <<a[2] * b[3] - a[3] * b[2], a[3] * b[1] - a[1] * b[3],
      a[1] * b[2] - a[2] * b[1]>>

\* Get_Nodes_Line, lines 847-863; line is [coordo0, vecteurUnitaire,
\* length], the attributes the method reads.
Get_Nodes_Line(g, line) ==
    SelReturn(Sel_take(g, np_where(
        [k \in DOMAIN g.nodes |->
            \A vect \in {Minus3(g.coordo[k], line.coordo0)} :
              /\ np_linalg_norm(Cross3(vect, line.vecteurUnitaire)).q.n = 0
              /\ Dot3(line.vecteurUnitaire, vect) >= 0
              /\ Dot3(line.vecteurUnitaire, vect) <= line.length])))

\* Get_Nodes_Domain, lines 865-876; domain is [pt1, pt2]
Get_Nodes_Domain(g, domain) ==
    SelReturn(Sel_take(g, np_where(
        [k \in DOMAIN g.nodes |->
            \A c \in 1 .. 3 :
              /\ g.coordo[k][c] >= domain.pt1[c]
              /\ g.coordo[k][c] <= domain.pt2[c]])))

\* q * sqrt(m) <= r for q >= 0 and r >= 0
SurdAtMost(s, r) == s.q.n * s.q.n * s.m * r.d * r.d <= r.n * r.n * s.q.d * s.q.d

\* Get_Nodes_Circle, lines 878-887; circle is [center, diam]
Get_Nodes_Circle(g, circle) ==
    SelReturn(Sel_take(g, np_where(
        [k \in DOMAIN g.nodes |->
            SurdAtMost(np_sqrt(Dot3(Minus3(g.coordo[k], circle.center),
                                    Minus3(g.coordo[k], circle.center))),
                       Rat(circle.diam, 2))])))

\* The groups: any non-empty set of the mesh's nodes.
SelGroups ==
    { Sel_init(Arr0(Sorted(S)), MeshCoordo)
      : S \in (SUBSET (0 .. MaxMeshNodes - 1)) \ {{}} }

SelPoints == (0 .. 2) \X (0 .. 1) \X (0 .. 1)

Conditions ==
    {[kind |-> "bool"]}
    \cup {[kind |-> "eq", v |-> v] : v \in 0 .. 1}
    \cup {[kind |-> "and", lo |-> lo, hi |-> lo + 2] : lo \in -1 .. 0}

SelLines ==
    {[coordo0 |-> p, vecteurUnitaire |-> u, length |-> l]
     : p \in {<<0, 0, 0>>, <<1, 0, 0>>, <<0, 1, 0>>}, u \in UnitAxes,
       l \in 1 .. 2}

SelDomains ==
    {[pt1 |-> p, pt2 |-> q]
     : p \in {<<0, 0, 0>>, <<1, 0, 0>>, <<0, 1, 0>>},
       q \in {<<1, 0, 0>>, <<2, 0, 0>>, <<2, 1, 1>>, <<0, 1, 0>>}}

SelCircles ==
    {[center |-> p, diam |-> d]
     : p \in {<<0, 0, 0>>, <<1, 0, 0>>, <<1, 1, 0>>}, d \in 1 .. 3}

InitSel ==
    /\ sIn \in SelGroups
    /\ sOut = [op |-> "init"]
    /\ GroupIdle /\ ConnIdle /\ BIdle /\ MeshIdle /\ ShapeIdle /\ MapIdle
    /\ PointIdle /\ RenumIdle /\ TicIdle /\ GeomIdle

\* The one call the caller makes on the group.
Selected(op, arg, r) ==
    /\ sOut.op = "init"
    /\ sOut' = [op |-> op, arg |-> arg, r |-> r]
    /\ UNCHANGED <<grp, cache, ever, ret, held, conn, res, bIn, bOut, mIn, mSt,
                   nIn, nOut, fIn, fOut, pts, gIn, gOut, sIn, tic, geo>>

Call_Get_Nodes_Conditions ==
    \E x \in Conditions, y \in Conditions, z \in Conditions :
        Selected("Get_Nodes_Conditions", <<x, y, z>>,
                 Get_Nodes_Conditions(sIn, x, y, z))

Call_Get_Nodes_Point ==
    \E point \in SelPoints :
        Selected("Get_Nodes_Point", point, Get_Nodes_Point(sIn, point))

Call_Get_Nodes_Line ==
    \E line \in SelLines :
        Selected("Get_Nodes_Line", line, Get_Nodes_Line(sIn, line))

Call_Get_Nodes_Domain ==
    \E domain \in SelDomains :
        Selected("Get_Nodes_Domain", domain, Get_Nodes_Domain(sIn, domain))

Call_Get_Nodes_Circle ==
    \E circle \in SelCircles :
        Selected("Get_Nodes_Circle", circle, Get_Nodes_Circle(sIn, circle))

NextSel ==
    \/ Call_Get_Nodes_Conditions
    \/ Call_Get_Nodes_Point
    \/ Call_Get_Nodes_Line
    \/ Call_Get_Nodes_Domain
    \/ Call_Get_Nodes_Circle

SpecSel == InitSel /\ [][NextSel]_vars

\* Whether the coordinates c satisfy the selection op of argument arg
Satisfies(op, arg, c) ==
    CASE op = "Get_Nodes_Conditions" ->
           \A a \in 1 .. 3 :
             arg[a].kind # "bool" => Condition_call(arg[a], c[a])
      [] op = "Get_Nodes_Point" -> c = arg
      [] op = "Get_Nodes_Line" ->
           \E t \in 0 .. arg.length :
             c = <<arg.coordo0[1] + t * arg.vecteurUnitaire[1],
                   arg.coordo0[2] + t * arg.vecteurUnitaire[2],
                   arg.coordo0[3] + t * arg.vecteurUnitaire[3]>>
      [] op = "Get_Nodes_Domain" ->
           \A a \in 1 .. 3 : arg.pt1[a] <= c[a] /\ c[a] <= arg.pt2[a]
      [] op = "Get_Nodes_Circle" ->
           4 * Dot3(Minus3(c, arg.center), Minus3(c, arg.center))
             <= arg.diam * arg.diam

\* C25: every node selection returns, in the order of the group's nodeIds,
\* the ids of the group's nodes (in the mesh's numbering) that satisfy the
\* predicate; Get_Nodes_Conditions with no condition returns exactly the
\* group's nodeIds, also for a group that uses only some of the mesh's
\* nodes.
C25_OwnNodeIds ==
    sOut.op # "init"
    => /\ sOut.r.kind = "return"
       /\ sOut.r.val
            = Arr0(Sorted({sIn.nodes[k] : k \in
                             {k \in DOMAIN sIn.nodes :
                                Satisfies(sOut.op, sOut.arg,
                                          MeshCoordo[sIn.nodes[k]])}}))

====
